---- MODULE Spec2Model ----
(***************************************************************************)
(* Model of the docs.rs harvesting tools of docs-rs-mcp:                   *)
(*   StructDocsTool  (tools/get_struct_docs.rs): find_struct_url,          *)
(*                   fetch_docs, HttpHtmlFetcher::fetch_html               *)
(*   CrateItemsTool  (tools/crate_items.rs): scrape_items                  *)
(* Strings are sequences of one-character strings, so that the string      *)
(* operations of the code (split, rfind, slicing, trim, contains,          *)
(* format!) are computed as the code computes them.                        *)
(* An Option is a sequence of length at most one: <<>> is None, <<x>> is   *)
(* Some(x).  A Result is a record with the field ok.                       *)
(***************************************************************************)
EXTENDS Integers, Sequences, FiniteSets, TLC

\* ------------------------------------------------------------------------
\* Bounds of the model
\* ------------------------------------------------------------------------
MaxAnchors == 2
MaxRows == 1
MaxImpls == 2
MaxElems == 1
MaxCalls == 2

\* ------------------------------------------------------------------------
\* String operations of the Rust standard library, as the code uses them
\* ------------------------------------------------------------------------
None == <<>>

Some(x) == <<x>>

is_some(o) == Len(o) > 0

unwrap_or(o, d) == IF Len(o) > 0 THEN o[1] ELSE d

\* s[from..] with a 0-based byte offset
SliceFrom(s, from) == SubSeq(s, from + 1, Len(s))

\* s[..to] with a 0-based exclusive end
SliceTo(s, to) == SubSeq(s, 1, to)

starts_with(s, p) == Len(p) <= Len(s) /\ SubSeq(s, 1, Len(p)) = p

ends_with(s, p) == Len(p) <= Len(s) /\ SubSeq(s, Len(s) - Len(p) + 1, Len(s)) = p

\* str::contains: p occurs in s as a contiguous substring
contains(s, p) == \E i \in 0..(Len(s) - Len(p)) : SubSeq(s, i + 1, i + Len(p)) = p

\* str::rfind(char): <<i>> for the 0-based offset of the last occurrence
rfind(s, ch) ==
    LET hits == {i \in 1..Len(s) : s[i] = ch}
    IN  IF hits = {} THEN None
        ELSE Some((CHOOSE i \in hits : \A j \in hits : j <= i) - 1)

\* str::split(pattern): left to right, non-overlapping; always at least one piece
RECURSIVE split(_, _)
split(s, pat) ==
    LET hits == {i \in 1..(Len(s) - Len(pat) + 1) : SubSeq(s, i, i + Len(pat) - 1) = pat}
    IN  IF hits = {} THEN <<s>>
        ELSE LET i == CHOOSE k \in hits : \A j \in hits : k <= j
             IN  <<SubSeq(s, 1, i - 1)>> \o split(SubSeq(s, i + Len(pat), Len(s)), pat)

\* [T]::join(sep)
RECURSIVE join(_, _)
join(parts, sep) ==
    IF Len(parts) = 0 THEN <<>>
    ELSE IF Len(parts) = 1 THEN parts[1]
    ELSE parts[1] \o sep \o join(Tail(parts), sep)

\* str::replace(from, to)
replace(s, from, to) == join(split(s, from), to)

\* Iterator::take(n) on a sequence
take(seq, n) == SubSeq(seq, 1, IF n < Len(seq) THEN n ELSE Len(seq))

\* Iterator::last on a non-empty sequence
last(seq) == IF Len(seq) = 0 THEN None ELSE Some(seq[Len(seq)])

\* str::trim_start_matches(char): strips every leading occurrence
RECURSIVE trim_start_matches(_, _)
trim_start_matches(s, ch) ==
    IF Len(s) > 0 /\ s[1] = ch THEN trim_start_matches(Tail(s), ch) ELSE s

WhiteSpace == {" ", "\n"}

RECURSIVE trim_start(_)
trim_start(s) == IF Len(s) > 0 /\ s[1] \in WhiteSpace THEN trim_start(Tail(s)) ELSE s

RECURSIVE trim_end(_)
trim_end(s) ==
    IF Len(s) > 0 /\ s[Len(s)] \in WhiteSpace THEN trim_end(SubSeq(s, 1, Len(s) - 1)) ELSE s

\* str::trim
trim(s) == trim_end(trim_start(s))

\* char::to_uppercase on the letters that start a section key
to_uppercase(ch) ==
    CASE ch = "m" -> "M" [] ch = "s" -> "S" [] ch = "e" -> "E" [] ch = "t" -> "T"
      [] ch = "f" -> "F" [] ch = "a" -> "A" [] OTHER -> ch

\* the sequences over S of length at most n
RECURSIVE SeqUpTo(_, _)
SeqUpTo(S, n) ==
    IF n = 0 THEN {<<>>}
    ELSE LET shorter == SeqUpTo(S, n - 1)
         IN  shorter \cup {Append(q, x) : q \in {r \in shorter : Len(r) = n - 1}, x \in S}

\* ------------------------------------------------------------------------
\* String literals of the code
\* ------------------------------------------------------------------------
SLASH == <<"/">>
COLONS == <<":", ":">>
HTTP == <<"h", "t", "t", "p">>
STRUCT == <<"s", "t", "r", "u", "c", "t">>
DOT_HTML == <<".", "h", "t", "m", "l">>
ALL_HTML == <<"a", "l", "l", ".", "h", "t", "m", "l">>
LATEST == <<"l", "a", "t", "e", "s", "t">>
DOCS_RS == <<"h", "t", "t", "p", "s", ":", "/", "/", "d", "o", "c", "s", ".", "r", "s">>

STRUCTS_KEY == <<"s", "t", "r", "u", "c", "t", "s">>
COULD_NOT_FIND == <<"C", "o", "u", "l", "d", " ", "n", "o", "t", " ", "f", "i", "n", "d", " ", "s", "t", "r", "u", "c", "t", " ">>
IN_CRATE == <<" ", "i", "n", " ", "c", "r", "a", "t", "e", " ">>
NO_PARTS == <<"I", "n", "v", "a", "l", "i", "d", " ", "s", "t", "r", "u", "c", "t", " ", "n", "a", "m", "e">>

\* ------------------------------------------------------------------------
\* Results and errors (anyhow): an error is its chain of messages, the
\* outermost context first
\* ------------------------------------------------------------------------
Ok(v) == [ok |-> TRUE, val |-> <<v>>, err |-> <<>>]

Err(chain) == [ok |-> FALSE, val |-> <<>>, err |-> chain]

\* anyhow!(msg)
anyhow(msg) == Err(<<msg>>)

\* .context(msg) on a failed library call whose own message is cause
context(cause, msg) == Err(<<msg, cause>>)

\* ------------------------------------------------------------------------
\* serde_json::Value and serde_json::from_value into the parameter structs.
\* A Value has its kind, the text of a string, the members of an object (a
\* set of key and value, the keys distinct) and the elements of an array.
\* ------------------------------------------------------------------------
Value(kind, str, members, elems) ==
    [kind |-> kind, str |-> str, members |-> members, elems |-> elems]

\* Value::default()
Null == Value("null", <<>>, {}, <<>>)

String(s) == Value("string", s, {}, <<>>)

Number == Value("number", <<"1">>, {}, <<>>)

Object(members) == Value("object", <<>>, members, <<>>)

Array(elems) == Value("array", <<>>, {}, elems)

member(key, value) == [key |-> key, value |-> value]

INVALID_TYPE == <<"i", "n", "v", "a", "l", "i", "d", " ", "t", "y", "p", "e">>
INVALID_LENGTH == <<"i", "n", "v", "a", "l", "i", "d", " ", "l", "e", "n", "g", "t", "h">>
MISSING_FIELD == <<"m", "i", "s", "s", "i", "n", "g", " ", "f", "i", "e", "l", "d">>

\* Map::get
get(members, key) ==
    LET hits == {m \in members : m.key = key}
    IN  IF hits = {} THEN None ELSE Some((CHOOSE m \in hits : TRUE).value)

\* what the derived visitor is handed for a field: visit_map takes it by
\* key, visit_seq by position
visit_field(value, key, index) ==
    IF value.kind = "object" THEN get(value.members, key)
    ELSE IF index <= Len(value.elems) THEN Some(value.elems[index])
    ELSE None

\* <String as Deserialize>::deserialize on a field that is present
de_String(v) == IF v.kind = "string" THEN Ok(v.str) ELSE anyhow(INVALID_TYPE)

\* <Option<String> as Deserialize>::deserialize; a field that is absent from
\* the map is None as well
de_Option(o) ==
    IF ~is_some(o) \/ o[1].kind = "null" THEN Ok(None)
    ELSE IF o[1].kind = "string" THEN Ok(Some(o[1].str))
    ELSE anyhow(INVALID_TYPE)

\* deserialize_struct: a map, or a sequence with one element per field
de_struct(value, len) ==
    IF value.kind = "object" THEN Ok(value)
    ELSE IF value.kind = "array"
    THEN (IF Len(value.elems) = len THEN Ok(value) ELSE anyhow(INVALID_LENGTH))
    ELSE anyhow(INVALID_TYPE)

\* a required String field: a value of another type fails when it is
\* visited, an absent one when the map is exhausted
de_required(o) ==
    IF ~is_some(o) THEN anyhow(MISSING_FIELD) ELSE de_String(o[1])

\* a slip: struct_name carries #[serde(default)], so that a missing one is
\* the empty string
StructDocsParams_lenient(value) ==
    LET shape == de_struct(value, 3)
        c == de_required(visit_field(value, "crate_name", 1))
        o == visit_field(value, "struct_name", 2)
        s == IF is_some(o) THEN de_String(o[1]) ELSE Ok(<<>>)
        v == de_Option(visit_field(value, "version", 3))
        wrong == \/ ~c.ok /\ c.err = <<INVALID_TYPE>>
                 \/ ~s.ok
                 \/ ~v.ok
    IN  IF ~shape.ok THEN shape
        ELSE IF wrong THEN anyhow(INVALID_TYPE)
        ELSE IF ~c.ok THEN c
        ELSE Ok([crate_name |-> c.val[1], struct_name |-> s.val[1], version |-> v.val[1]])

\* serde_json::from_value::<StructDocsParams>
StructDocsParams(value) ==
    LET shape == de_struct(value, 3)
        c == de_required(visit_field(value, "crate_name", 1))
        s == de_required(visit_field(value, "struct_name", 2))
        v == de_Option(visit_field(value, "version", 3))
        wrong == \/ ~c.ok /\ c.err = <<INVALID_TYPE>>
                 \/ ~s.ok /\ s.err = <<INVALID_TYPE>>
                 \/ ~v.ok
    IN  IF ~shape.ok THEN shape
        ELSE IF wrong THEN anyhow(INVALID_TYPE)
        ELSE IF ~c.ok THEN c
        ELSE IF ~s.ok THEN s
        ELSE Ok([crate_name |-> c.val[1], struct_name |-> s.val[1], version |-> v.val[1]])

\* serde_json::from_value::<CrateNameParam>
CrateNameParam(value) ==
    LET shape == de_struct(value, 2)
        c == de_required(visit_field(value, "crate_name", 1))
        v == de_Option(visit_field(value, "version", 2))
        wrong == \/ ~c.ok /\ c.err = <<INVALID_TYPE>>
                 \/ ~v.ok
    IN  IF ~shape.ok THEN shape
        ELSE IF wrong THEN anyhow(INVALID_TYPE)
        ELSE IF ~c.ok THEN c
        ELSE Ok([crate_name |-> c.val[1], version |-> v.val[1]])

\* ------------------------------------------------------------------------
\* The parsed all-items document: what each selector of the code selects.
\* lists[k] are the anchors of `h3#k + ul.all-items > li > a`, table the
\* anchors of `div[id='structs'] > div.item-table > div.item-row > a`, in
\* document order.  An anchor has its text and its optional href attribute.
\* ------------------------------------------------------------------------
\* a slip: the div-table selector comes first
selectors_table_first == <<[kind |-> "table", section |-> STRUCTS_KEY],
                           [kind |-> "list", section |-> STRUCTS_KEY]>>

selectors == <<[kind |-> "list", section |-> STRUCTS_KEY],
               [kind |-> "table", section |-> STRUCTS_KEY]>>

select(document, selector) ==
    IF selector.kind = "list" THEN document.lists[selector.section] ELSE document.table

\* ------------------------------------------------------------------------
\* StructDocsTool::get_docs_rs_url and find_struct_url
\* ------------------------------------------------------------------------
get_docs_rs_url(env) == unwrap_or(env, DOCS_RS)

all_items_url(root, crate_name, version) ==
    root \o SLASH \o crate_name \o SLASH \o unwrap_or(version, LATEST)
         \o SLASH \o crate_name \o SLASH \o ALL_HTML

struct_name_without_path(struct_name) == last(split(struct_name, COLONS))

module_path(struct_name) ==
    LET parts == split(struct_name, COLONS)
    IN  join(take(parts, Len(parts) - 1), COLONS)

matches_name(text, struct_name) ==
    LET bare == unwrap_or(struct_name_without_path(struct_name), <<>>)
        mp == module_path(struct_name)
    IN  IF mp = <<>> THEN text = bare
        ELSE text = struct_name \/ text = mp \o COLONS \o bare

\* the closure handed to find: the name matches and the href has the marker
link_matches(element, struct_name) ==
    /\ matches_name(element.text, struct_name)
    /\ contains(unwrap_or(element.href, <<>>), STRUCT)

\* a slip: the last element that satisfies the closure is taken
find_last(elems, struct_name) ==
    LET hits == {i \in 1..Len(elems) : link_matches(elems[i], struct_name)}
    IN  IF hits = {} THEN None
        ELSE Some(elems[CHOOSE i \in hits : \A j \in hits : j <= i])

\* document.select(..).find(..): the first element in document order that
\* satisfies the closure
find(elems, struct_name) ==
    LET hits == {i \in 1..Len(elems) : link_matches(elems[i], struct_name)}
    IN  IF hits = {} THEN None
        ELSE Some(elems[CHOOSE i \in hits : \A j \in hits : i <= j])

base_url(root, crate_name, version) ==
    root \o SLASH \o crate_name \o SLASH \o unwrap_or(version, LATEST) \o SLASH \o crate_name

final_path(struct_path, mp) ==
    LET path_parts == split(struct_path, SLASH)
    IN  IF mp # <<>> /\ ~(\E i \in 1..Len(path_parts) : contains(path_parts[i], mp))
        THEN LET last_slash == unwrap_or(rfind(struct_path, "/"), 0)
             IN  SliceTo(struct_path, last_slash) \o SLASH \o replace(mp, COLONS, SLASH)
                     \o SLASH \o SliceFrom(struct_path, last_slash + 1)
        ELSE struct_path

\* a slip: the href is returned as it stands, relative or not
full_url_href(struct_path, root, crate_name, struct_name, version) ==
    IF starts_with(struct_path, HTTP) THEN struct_path
    ELSE final_path(struct_path, module_path(struct_name))

full_url(struct_path, root, crate_name, struct_name, version) ==
    IF starts_with(struct_path, HTTP) THEN struct_path
    ELSE base_url(root, crate_name, version) \o final_path(struct_path, module_path(struct_name))

not_found(crate_name, struct_name) ==
    anyhow(COULD_NOT_FIND \o struct_name \o IN_CRATE \o crate_name)

\* the loop over the selectors, from the i-th on
RECURSIVE try_selectors(_, _, _, _, _, _)
try_selectors(i, document, root, crate_name, struct_name, version) ==
    IF i > Len(selectors) THEN not_found(crate_name, struct_name)
    ELSE LET hit == find(select(document, selectors[i]), struct_name)
             struct_path == IF is_some(hit) THEN hit[1].href ELSE None
         IN  IF is_some(struct_path)
             THEN Ok(full_url(struct_path[1], root, crate_name, struct_name, version))
             ELSE try_selectors(i + 1, document, root, crate_name, struct_name, version)

\* find_struct_url after its fetch: fetched is the Result of fetch_html on
\* the all-items URL, root the value of get_docs_rs_url read for base_url
find_struct_url(fetched, root, crate_name, struct_name, version) ==
    IF ~fetched.ok THEN fetched
    ELSE IF ~is_some(struct_name_without_path(struct_name)) THEN anyhow(NO_PARTS)
    ELSE try_selectors(1, fetched.val[1], root, crate_name, struct_name, version)

\* ------------------------------------------------------------------------
\* HttpHtmlFetcher::fetch_html.  A request's outcome is what the network
\* does with it: send fails (send_ok = FALSE), or a response arrives with a
\* status and a body that is readable text (Some) or not (None).
\* ------------------------------------------------------------------------
FAILED_FETCH_URL == <<"F", "a", "i", "l", "e", "d", " ", "t", "o", " ", "f", "e", "t", "c", "h", " ", "U", "R", "L", ":", " ">>
HTTP_SP == <<"H", "T", "T", "P", " ">>
FAILED_TEXT == <<"F", "a", "i", "l", "e", "d", " ", "t", "o", " ", "g", "e", "t", " ", "t", "e", "x", "t", " ", "f", "r", "o", "m", " ", "r", "e", "s", "p", "o", "n", "s", "e", " ", "f", "o", "r", " ", "U", "R", "L", ":", " ">>
SEND_ERROR == <<"e", "r", "r", "o", "r", " ", "s", "e", "n", "d", "i", "n", "g", " ", "r", "e", "q", "u", "e", "s", "t">>
BODY_ERROR == <<"e", "r", "r", "o", "r", " ", "d", "e", "c", "o", "d", "i", "n", "g", " ", "r", "e", "s", "p", "o", "n", "s", "e", " ", "b", "o", "d", "y">>

\* StatusCode::is_success
is_success(status) == 200 <= status /\ status < 300

\* Display of a StatusCode, for the codes the model's network answers with
status_text(status) ==
    CASE status = 200 -> <<"2", "0", "0", " ", "O", "K">>
      [] status = 404 -> <<"4", "0", "4", " ", "N", "o", "t", " ", "F", "o", "u", "n", "d">>
      [] OTHER -> <<"5", "0", "0", " ", "I", "n", "t", "e", "r", "n", "a", "l", " ", "S", "e", "r", "v", "e", "r", " ", "E", "r", "r", "o", "r">>

fetch_html(url, outcome) ==
    IF ~outcome.send_ok THEN context(SEND_ERROR, FAILED_FETCH_URL \o url)
    ELSE IF ~is_success(outcome.status)
    THEN anyhow(FAILED_FETCH_URL \o HTTP_SP \o status_text(outcome.status))
    ELSE IF ~is_some(outcome.body) THEN context(BODY_ERROR, FAILED_TEXT \o url)
    ELSE Ok(outcome.body[1])

\* ------------------------------------------------------------------------
\* StructDocsTool::fetch_docs after the type page is fetched.  The parsed
\* type page is what the selectors of the code select in it:
\*   top_doc      texts of `.toggle.top-doc .docblock`
\*   methods      per `.impl-items .toggle.method-toggle`, the optional text
\*                of its first `.code-header .fn`, `.code-header`, `.docblock`
\*   trait_impls, synthetic_impls, blanket_impls
\*                per `#<section> .impl`, the optional text of `h3 .trait`
\*   fields       per `.structfield`, the optional text of its first
\*                `.structfield-name`, `.type`, `.docblock`
\* ------------------------------------------------------------------------
\* Iterator::next on a fresh iterator
next(elems) == IF Len(elems) = 0 THEN None ELSE Some(elems[1])

description(document) == trim(unwrap_or(next(document.top_doc), <<>>))

MethodDoc(method) ==
    [name |-> trim(unwrap_or(method.fn, <<>>)),
     signature |-> trim(unwrap_or(method.code_header, <<>>)),
     description |-> trim(unwrap_or(method.docblock, <<>>))]

\* a slip: a method element without a name span yields no record
\* (filter_map instead of map)
methods_named(document) ==
    LET named == {i \in 1..Len(document.methods) : is_some(document.methods[i].fn)}
    IN  [j \in 1..Cardinality(named) |->
             MethodDoc(document.methods[
                 CHOOSE i \in named : Cardinality({x \in named : x < i}) = j - 1])]

methods(document) == [i \in 1..Len(document.methods) |-> MethodDoc(document.methods[i])]

\* one `for ... in document.select(...)` loop pushing onto traits
RECURSIVE push_traits(_, _)
push_traits(traits, sections) ==
    IF Len(sections) = 0 THEN traits
    ELSE LET trait_name == sections[1]
             pushed == IF is_some(trait_name) /\ trait_name[1] # <<>>
                       THEN Append(traits, trait_name[1]) ELSE traits
         IN  push_traits(pushed, Tail(sections))

\* a slip: the later tiers are read without the traits.is_empty() guards
traits_mixed(document) ==
    push_traits(push_traits(push_traits(<<>>, document.trait_impls),
                            document.synthetic_impls),
                document.blanket_impls)

traits(document) ==
    LET explicit == push_traits(<<>>, document.trait_impls)
        synthetic == IF explicit = <<>> THEN push_traits(explicit, document.synthetic_impls)
                     ELSE explicit
    IN  IF synthetic = <<>> THEN push_traits(synthetic, document.blanket_impls)
        ELSE synthetic

FieldDoc(field) ==
    [name |-> unwrap_or(field.name, <<>>),
     type_name |-> unwrap_or(field.type, <<>>),
     description |-> unwrap_or(field.docblock, <<>>)]

fields(document) == [i \in 1..Len(document.fields) |-> FieldDoc(document.fields[i])]

\* a slip: name is the canonical bare name, not the caller's string
StructDocs_bare_name(document, crate_name, struct_name) ==
    Ok([name |-> unwrap_or(struct_name_without_path(struct_name), <<>>),
        crate_name |-> crate_name,
        description |-> description(document),
        methods |-> methods(document),
        traits |-> traits(document),
        fields |-> fields(document)])

\* a slip: a missing description is an error (ok_or_else instead of
\* unwrap_or_default)
StructDocs_strict(document, crate_name, struct_name) ==
    IF ~is_some(next(document.top_doc)) THEN anyhow(<<"n", "o", " ", "d", "o", "c">>)
    ELSE Ok([name |-> struct_name,
             crate_name |-> crate_name,
             description |-> description(document),
             methods |-> methods(document),
             traits |-> traits(document),
             fields |-> fields(document)])

\* fetch_docs from Html::parse_document on: the selectors are constants that
\* parse, so no `?` of this part returns early
StructDocs(document, crate_name, struct_name) ==
    Ok([name |-> struct_name,
        crate_name |-> crate_name,
        description |-> description(document),
        methods |-> methods(document),
        traits |-> traits(document),
        fields |-> fields(document)])

\* ------------------------------------------------------------------------
\* CrateItemsTool::scrape_items
\* ------------------------------------------------------------------------
DOCS_RS_SLASH == <<"h", "t", "t", "p", "s", ":", "/", "/", "d", "o", "c", "s", ".", "r", "s", "/">>
FAILED_PAGE == <<"F", "a", "i", "l", "e", "d", " ", "t", "o", " ", "f", "e", "t", "c", "h", " ", "d", "o", "c", "s", ".", "r", "s", " ", "p", "a", "g", "e", ":", " ">>
DASH == <<" ", "-", " ">>
TYPES_KEY == <<"t", "y", "p", "e", "s">>
TYPE_ALIASES == <<"T", "y", "p", "e", " ", "A", "l", "i", "a", "s", "e", "s">>

sections ==
    << <<"m", "a", "c", "r", "o", "s">>,
       <<"s", "t", "r", "u", "c", "t", "s">>,
       <<"e", "n", "u", "m", "s">>,
       <<"t", "r", "a", "i", "t", "s">>,
       <<"f", "u", "n", "c", "t", "i", "o", "n", "s">>,
       <<"t", "y", "p", "e", "s">>,
       <<"a", "t", "t", "r", "i", "b", "u", "t", "e", "s">> >>

scrape_url(crate_name, version) ==
    DOCS_RS_SLASH \o crate_name \o SLASH \o unwrap_or(version, LATEST)
        \o SLASH \o crate_name \o SLASH \o ALL_HTML

\* a slip: the status error leaves the URL out, as that of fetch_html does
scrape_fetch_no_url(url, outcome) ==
    IF ~outcome.send_ok THEN anyhow(SEND_ERROR)
    ELSE IF ~is_success(outcome.status)
    THEN anyhow(FAILED_PAGE \o status_text(outcome.status))
    ELSE IF ~is_some(outcome.body) THEN anyhow(BODY_ERROR)
    ELSE Ok(outcome.body[1])

\* client.get(&url).send()?, the status check and response.text()?
scrape_fetch(url, outcome) ==
    IF ~outcome.send_ok THEN anyhow(SEND_ERROR)
    ELSE IF ~is_success(outcome.status)
    THEN anyhow(FAILED_PAGE \o status_text(outcome.status) \o DASH \o url)
    ELSE IF ~is_some(outcome.body) THEN anyhow(BODY_ERROR)
    ELSE Ok(outcome.body[1])

\* a slip: `types` is title-cased like the other keys
section_name_plain(section) == <<to_uppercase(section[1])>> \o SliceFrom(section, 1)

section_name(section) ==
    IF section = TYPES_KEY THEN TYPE_ALIASES
    ELSE <<to_uppercase(section[1])>> \o SliceFrom(section, 1)

\* a slip: the leading separators of the href are not stripped
doc_link_unstripped(path, crate_name, version) ==
    IF starts_with(path, HTTP) THEN path
    ELSE DOCS_RS_SLASH \o crate_name \o SLASH \o unwrap_or(version, LATEST)
             \o SLASH \o crate_name \o SLASH \o path

doc_link(path, crate_name, version) ==
    IF starts_with(path, HTTP) THEN path
    ELSE DOCS_RS_SLASH \o crate_name \o SLASH \o unwrap_or(version, LATEST)
             \o SLASH \o crate_name \o SLASH \o trim_start_matches(path, "/")

\* a slip: every anchor is pushed, without the is_empty() tests
RECURSIVE section_items_unfiltered(_, _, _)
section_items_unfiltered(links, crate_name, version) ==
    IF Len(links) = 0 THEN <<>>
    ELSE LET name == trim(links[1].text)
             path == trim(unwrap_or(links[1].href, <<>>))
             item == [name |-> name, path |-> path,
                      doc_link |-> doc_link(path, crate_name, version)]
             rest == section_items_unfiltered(Tail(links), crate_name, version)
         IN  <<item>> \o rest

\* a slip: the items are inserted at the front (insert(0, ..) instead of
\* push)
RECURSIVE section_items_reversed(_, _, _)
section_items_reversed(links, crate_name, version) ==
    IF Len(links) = 0 THEN <<>>
    ELSE LET name == trim(links[1].text)
             path == trim(unwrap_or(links[1].href, <<>>))
             item == [name |-> name, path |-> path,
                      doc_link |-> doc_link(path, crate_name, version)]
             rest == section_items_reversed(Tail(links), crate_name, version)
         IN  IF name # <<>> /\ path # <<>> THEN rest \o <<item>> ELSE rest

\* the loop over the links of one section
RECURSIVE section_items(_, _, _)
section_items(links, crate_name, version) ==
    IF Len(links) = 0 THEN <<>>
    ELSE LET name == trim(links[1].text)
             path == trim(unwrap_or(links[1].href, <<>>))
             item == [name |-> name, path |-> path,
                      doc_link |-> doc_link(path, crate_name, version)]
             rest == section_items(Tail(links), crate_name, version)
         IN  IF name # <<>> /\ path # <<>> THEN <<item>> \o rest ELSE rest

\* HashMap::insert
insert(map, k, v) == [x \in (DOMAIN map) \cup {k} |-> IF x = k THEN v ELSE map[x]]

\* a slip: the section is inserted without the is_empty() guard
RECURSIVE scrape_sections_unguarded(_, _, _, _, _)
scrape_sections_unguarded(i, items, document, crate_name, version) ==
    IF i > Len(sections) THEN items
    ELSE LET found == section_items(
                          select(document, [kind |-> "list", section |-> sections[i]]),
                          crate_name, version)
         IN  scrape_sections_unguarded(i + 1, insert(items, section_name(sections[i]), found),
                                       document, crate_name, version)

\* the loop over the sections, from the i-th on, filling items
RECURSIVE scrape_sections(_, _, _, _, _)
scrape_sections(i, items, document, crate_name, version) ==
    IF i > Len(sections) THEN items
    ELSE LET found == section_items(
                          select(document, [kind |-> "list", section |-> sections[i]]),
                          crate_name, version)
             filled == IF found # <<>> THEN insert(items, section_name(sections[i]), found)
                       ELSE items
         IN  scrape_sections(i + 1, filled, document, crate_name, version)

\* a slip: the result reports `latest` whatever version was asked for
CrateItems_latest(document, crate_name, version) ==
    Ok([crate_name |-> crate_name,
        version |-> LATEST,
        items |-> scrape_sections(1, <<>>, document, crate_name, version)])

\* scrape_items from Html::parse_document on
CrateItems(document, crate_name, version) ==
    Ok([crate_name |-> crate_name,
        version |-> unwrap_or(version, LATEST),
        items |-> scrape_sections(1, <<>>, document, crate_name, version)])

\* ------------------------------------------------------------------------
\* CrateInfoTool (tools/crate_info.rs): run_cargo_info and
\* parse_cargo_info_output.  What Command::output() gives for a candidate:
\* the spawn fails (ran = FALSE), or the process ran and exited with success
\* or not, with its stderr and its stdout, which is valid UTF-8 (Some) or
\* not (None).
\* ------------------------------------------------------------------------
CARGO == <<"c", "a", "r", "g", "o">>
USR_BIN_CARGO == <<"/", "u", "s", "r", "/", "b", "i", "n", "/", "c", "a", "r", "g", "o">>
USR_LOCAL_BIN_CARGO == <<"/", "u", "s", "r", "/", "l", "o", "c", "a", "l", "/", "b", "i", "n", "/", "c", "a", "r", "g", "o">>
DOT_CARGO_BIN_CARGO == <<".", "c", "a", "r", "g", "o", "/", "b", "i", "n", "/", "c", "a", "r", "g", "o">>
CARGO_FAILED == <<"C", "a", "r", "g", "o", " ", "c", "o", "m", "m", "a", "n", "d", " ", "f", "a", "i", "l", "e", "d", ":", " ">>
FAILED_EXECUTE == <<"F", "a", "i", "l", "e", "d", " ", "t", "o", " ", "e", "x", "e", "c", "u", "t", "e", " ", "c", "a", "r", "g", "o", " ", "a", "t", " ">>
COLON_SP == <<":", " ">>
COULD_NOT_EXECUTE == <<"C", "o", "u", "l", "d", " ", "n", "o", "t", " ", "f", "i", "n", "d", " ", "o", "r", " ", "e", "x", "e", "c", "u", "t", "e", " ", "c", "a", "r", "g", "o", ".", " ", "P", "l", "e", "a", "s", "e", " ", "e", "n", "s", "u", "r", "e", " ", "c", "a", "r", "g", "o", " ", "i", "s", " ", "i", "n", "s", "t", "a", "l", "l", "e", "d", " ", "a", "n", "d", " ", "i", "n", " ", "y", "o", "u", "r", " ", "P", "A", "T", "H", ".", " ", "L", "a", "s", "t", " ", "e", "r", "r", "o", "r", ":", " ">>
NO_DETAILS == <<"N", "o", " ", "e", "r", "r", "o", "r", " ", "d", "e", "t", "a", "i", "l", "s", " ", "a", "v", "a", "i", "l", "a", "b", "l", "e">>
NO_SUCH_FILE == <<"N", "o", " ", "s", "u", "c", "h", " ", "f", "i", "l", "e", " ", "o", "r", " ", "d", "i", "r", "e", "c", "t", "o", "r", "y", " ", "(", "o", "s", " ", "e", "r", "r", "o", "r", " ", "2", ")">>
INVALID_UTF8 == <<"i", "n", "v", "a", "l", "i", "d", " ", "u", "t", "f", "-", "8", " ", "s", "e", "q", "u", "e", "n", "c", "e">>
EMPTY_OUTPUT == <<"E", "m", "p", "t", "y", " ", "o", "u", "t", "p", "u", "t">>
FEATURES_COLON == <<"f", "e", "a", "t", "u", "r", "e", "s", ":">>
NOTE_COLON == <<"n", "o", "t", "e", ":">>
VERSION_KEY == <<"v", "e", "r", "s", "i", "o", "n">>
LICENSE_KEY == <<"l", "i", "c", "e", "n", "s", "e">>
RUST_VERSION_KEY == <<"r", "u", "s", "t", "-", "v", "e", "r", "s", "i", "o", "n">>
DOCUMENTATION_KEY == <<"d", "o", "c", "u", "m", "e", "n", "t", "a", "t", "i", "o", "n">>
HOMEPAGE_KEY == <<"h", "o", "m", "e", "p", "a", "g", "e">>
REPOSITORY_KEY == <<"r", "e", "p", "o", "s", "i", "t", "o", "r", "y">>
CRATES_IO_KEY == <<"c", "r", "a", "t", "e", "s", ".", "i", "o">>

\* serde_json::from_value::<CrateNameParam> of crate_info.rs
CrateInfoParam(value) ==
    LET shape == de_struct(value, 1)
        c == de_required(visit_field(value, "crate_name", 1))
    IN  IF ~shape.ok THEN shape
        ELSE IF ~c.ok THEN c
        ELSE Ok([crate_name |-> c.val[1]])

\* Path::join: an absolute path replaces the base, another one is pushed
\* after a separator unless the base is empty or ends with one
path_join(base, path) ==
    IF starts_with(path, SLASH) THEN path
    ELSE IF base # <<>> /\ base[Len(base)] # "/" THEN base \o SLASH \o path
    ELSE base \o path

\* a slip: the locations of the system are tried before the PATH
cargo_paths_usr_first(home) ==
    <<USR_BIN_CARGO,
      CARGO,
      USR_LOCAL_BIN_CARGO,
      IF is_some(home) THEN path_join(home[1], DOT_CARGO_BIN_CARGO) ELSE <<>> >>

\* the candidates, home being what home::home_dir() returns
cargo_paths(home) ==
    <<CARGO,
      USR_BIN_CARGO,
      USR_LOCAL_BIN_CARGO,
      IF is_some(home) THEN path_join(home[1], DOT_CARGO_BIN_CARGO) ELSE <<>> >>

\* String::from_utf8(output.stdout)?
from_utf8(stdout) == IF is_some(stdout) THEN Ok(stdout[1]) ELSE anyhow(INVALID_UTF8)

\* the value the failing arms of the match leave in last_error
cargo_error(cargo_path, o) ==
    IF o.ran THEN CARGO_FAILED \o o.stderr
    ELSE FAILED_EXECUTE \o cargo_path \o COLON_SP \o NO_SUCH_FILE

\* the Err after the loop
no_cargo(last_error) == anyhow(COULD_NOT_EXECUTE \o unwrap_or(last_error, NO_DETAILS))

\* str::lines: the pieces between line feeds, without a last empty piece
lines(s) ==
    LET pieces == split(s, <<"\n">>)
    IN  IF pieces[Len(pieces)] = <<>> THEN SubSeq(pieces, 1, Len(pieces) - 1) ELSE pieces

\* str::split_whitespace().next()
first_word(s) ==
    LET t == trim_start(s)
        ws == {i \in 1..Len(t) : t[i] \in WhiteSpace}
    IN  IF t = <<>> THEN None
        ELSE IF ws = {} THEN Some(t)
        ELSE Some(SubSeq(t, 1, (CHOOSE i \in ws : \A j \in ws : i <= j) - 1))

\* str::split_once(char): the text before and after the first occurrence
split_once(s, ch) ==
    LET hits == {i \in 1..Len(s) : s[i] = ch}
    IN  IF hits = {} THEN None
        ELSE LET i == CHOOSE k \in hits : \A j \in hits : k <= j
             IN  Some(<<SubSeq(s, 1, i - 1), SubSeq(s, i + 1, Len(s))>>)

\* str::trim_matches(|c| c == '[' || c == ']')
RECURSIVE trim_brackets(_)
trim_brackets(s) ==
    IF Len(s) > 0 /\ s[1] \in {"[", "]"} THEN trim_brackets(Tail(s))
    ELSE IF Len(s) > 0 /\ s[Len(s)] \in {"[", "]"} THEN trim_brackets(SubSeq(s, 1, Len(s) - 1))
    ELSE s

\* the Feature pushed for a line of the features block
Feature(line) ==
    LET parts == split_once(line, "=")
        name == trim(IF is_some(parts) THEN parts[1][1] ELSE line)
        deps_str == trim(IF is_some(parts) THEN parts[1][2] ELSE <<>>)
        deps == split(trim_brackets(deps_str), <<",">>)
    IN  [name |-> trim_start_matches(name, "+"),
         is_default |-> starts_with(name, <<"+">>),
         dependencies |-> IF deps_str = <<>> THEN <<>>
                          ELSE [i \in 1..Len(deps) |-> trim(deps[i])]]

\* the arm of `match key.trim()` for a `key: value` line
set_field(info, line) ==
    LET kv == split_once(line, ":")
        key == trim(kv[1][1])
        value == trim(kv[1][2])
    IN  IF ~is_some(kv) THEN info
        ELSE IF key = VERSION_KEY THEN [info EXCEPT !.version = value]
        ELSE IF key = LICENSE_KEY THEN [info EXCEPT !.license = Some(value)]
        ELSE IF key = RUST_VERSION_KEY THEN [info EXCEPT !.rust_version = Some(value)]
        ELSE IF key = DOCUMENTATION_KEY THEN [info EXCEPT !.documentation = Some(value)]
        ELSE IF key = HOMEPAGE_KEY THEN [info EXCEPT !.homepage = Some(value)]
        ELSE IF key = REPOSITORY_KEY THEN [info EXCEPT !.repository = Some(value)]
        ELSE IF key = CRATES_IO_KEY THEN [info EXCEPT !.crates_io = Some(value)]
        ELSE info

\* the loop over the lines after the description
RECURSIVE parse_lines(_, _, _)
parse_lines(rest, info, in_features) ==
    IF rest = <<>> THEN info
    ELSE LET line == trim(rest[1])
         IN  IF line = <<>> THEN parse_lines(Tail(rest), info, in_features)
             ELSE IF starts_with(line, FEATURES_COLON) THEN parse_lines(Tail(rest), info, TRUE)
             ELSE IF in_features
             THEN (IF starts_with(line, NOTE_COLON) THEN info
                   ELSE parse_lines(Tail(rest),
                                    [info EXCEPT !.features = Append(@, Feature(line))], TRUE))
             ELSE parse_lines(Tail(rest), set_field(info, line), FALSE)

parse_cargo_info_output(output) ==
    LET ls == lines(output)
    IN  IF ls = <<>> THEN anyhow(EMPTY_OUTPUT)
        ELSE Ok(parse_lines(SubSeq(ls, 3, Len(ls)),
                            [name |-> unwrap_or(first_word(ls[1]), <<>>),
                             description |-> trim(IF Len(ls) >= 2 THEN ls[2] ELSE <<>>),
                             version |-> <<>>,
                             license |-> None,
                             rust_version |-> None,
                             documentation |-> None,
                             homepage |-> None,
                             repository |-> None,
                             crates_io |-> None,
                             features |-> <<>>],
                            FALSE))

\* ------------------------------------------------------------------------
\* The file system tools of main.rs.  The file system is the sequence of
\* its nodes, a directory before its entries and the entries of a directory
\* in the order read_dir yields them; a file has its content, which is
\* valid UTF-8 (Some) or not (None).
\* ------------------------------------------------------------------------
IS_A_DIRECTORY == <<"I", "s", " ", "a", " ", "d", "i", "r", "e", "c", "t", "o", "r", "y", " ", "(", "o", "s", " ", "e", "r", "r", "o", "r", " ", "2", "1", ")">>
NOT_A_DIRECTORY == <<"N", "o", "t", " ", "a", " ", "d", "i", "r", "e", "c", "t", "o", "r", "y", " ", "(", "o", "s", " ", "e", "r", "r", "o", "r", " ", "2", "0", ")">>
NOT_UTF8 == <<"s", "t", "r", "e", "a", "m", " ", "d", "i", "d", " ", "n", "o", "t", " ", "c", "o", "n", "t", "a", "i", "n", " ", "v", "a", "l", "i", "d", " ", "U", "T", "F", "-", "8">>
NO_HOME == <<"C", "o", "u", "l", "d", " ", "n", "o", "t", " ", "d", "e", "t", "e", "r", "m", "i", "n", "e", " ", "h", "o", "m", "e", " ", "d", "i", "r", "e", "c", "t", "o", "r", "y">>
TILDE == <<"~">>
TILDE_SLASH == <<"~", "/">>
EMPTY_LIST == <<"[", "]">>
DIR_PREFIX == <<"[", "D", "I", "R", "]">>
FILE_PREFIX == <<"[", "F", "I", "L", "E", "]">>
UPPER == <<"A", "B", "C", "D", "E", "F", "G", "H", "I", "J", "K", "L", "M", "N", "O", "P", "Q", "R", "S", "T", "U", "V", "W", "X", "Y", "Z">>
LOWER == <<"a", "b", "c", "d", "e", "f", "g", "h", "i", "j", "k", "l", "m", "n", "o", "p", "q", "r", "s", "t", "u", "v", "w", "x", "y", "z">>

HOME_DIR == <<"/", "h">>
ETC_DIR == <<"/", "e", "t", "c">>
ETC_P == <<"/", "e", "t", "c", "/", "p">>

Dir(path) == [path |-> path, is_dir |-> TRUE, content |-> None]

File(path, content) == [path |-> path, is_dir |-> FALSE, content |-> content]

Disk ==
    <<Dir(HOME_DIR),
      File(<<"/", "h", "/", "n">>, Some(<<"x">>)),
      Dir(ETC_DIR),
      File(ETC_P, Some(<<"s">>)),
      Dir(<<"/", "e", "t", "c", "/", "d">>),
      File(<<"/", "e", "t", "c", "/", "d", "/", "P">>, None)>>

\* serde_json::from_value::<PathParam>
PathParam(value) ==
    LET shape == de_struct(value, 1)
        p == de_required(visit_field(value, "path", 1))
    IN  IF ~shape.ok THEN shape
        ELSE IF ~p.ok THEN p
        ELSE Ok([path |-> p.val[1]])

\* serde_json::from_value::<SearchParam>
SearchParam(value) ==
    LET shape == de_struct(value, 2)
        p == de_required(visit_field(value, "path", 1))
        t == de_required(visit_field(value, "pattern", 2))
        wrong == \/ ~p.ok /\ p.err = <<INVALID_TYPE>>
                 \/ ~t.ok /\ t.err = <<INVALID_TYPE>>
    IN  IF ~shape.ok THEN shape
        ELSE IF wrong THEN anyhow(INVALID_TYPE)
        ELSE IF ~p.ok THEN p
        ELSE IF ~t.ok THEN t
        ELSE Ok([path |-> p.val[1], pattern |-> t.val[1]])

\* str::strip_prefix
strip_prefix(s, prefix) ==
    IF starts_with(s, prefix) THEN Some(SliceFrom(s, Len(prefix))) ELSE None

\* get_path, home being what home::home_dir() returns
get_path(path, home) ==
    IF starts_with(path, TILDE)
    THEN (IF ~is_some(home) THEN anyhow(NO_HOME)
          ELSE Ok(path_join(home[1], unwrap_or(strip_prefix(path, TILDE_SLASH), <<>>))))
    ELSE Ok(path)

\* the node the file system resolves a path to: separators at the end of
\* the path do not count
RECURSIVE trim_end_slashes(_)
trim_end_slashes(path) ==
    IF Len(path) > 1 /\ path[Len(path)] = "/" THEN trim_end_slashes(SubSeq(path, 1, Len(path) - 1))
    ELSE path

stat(path) ==
    LET hits == {i \in 1..Len(Disk) : Disk[i].path = trim_end_slashes(path)}
    IN  IF hits = {} THEN None ELSE Some(Disk[CHOOSE i \in hits : TRUE])

\* Path::file_name
file_name(path) ==
    LET p == trim_end_slashes(path)
    IN  SliceFrom(p, unwrap_or(rfind(p, "/"), -1) + 1)

\* std::fs::read_to_string
read_to_string(path) ==
    LET node == stat(path)
    IN  IF ~is_some(node) THEN anyhow(NO_SUCH_FILE)
        ELSE IF node[1].is_dir THEN anyhow(IS_A_DIRECTORY)
        ELSE IF ~is_some(node[1].content) THEN anyhow(NOT_UTF8)
        ELSE Ok(node[1].content[1])

\* std::fs::read_dir: the entries of the directory, each with the path
\* entry.path() gives it
read_dir(path) ==
    LET node == stat(path)
        below == trim_end_slashes(path) \o SLASH
        inside == SelectSeq(Disk, LAMBDA n : /\ starts_with(n.path, below)
                                              /\ ~contains(SliceFrom(n.path, Len(below)), SLASH))
    IN  IF ~is_some(node) THEN anyhow(NO_SUCH_FILE)
        ELSE IF ~node[1].is_dir THEN anyhow(NOT_A_DIRECTORY)
        ELSE Ok([i \in 1..Len(inside) |->
                    [path |-> path_join(path, file_name(inside[i].path)),
                     is_dir |-> inside[i].is_dir]])

\* std::fs::metadata, as its Debug output tells it
metadata(path) ==
    LET node == stat(path)
    IN  IF ~is_some(node) THEN anyhow(NO_SUCH_FILE)
        ELSE Ok([is_dir |-> node[1].is_dir, is_file |-> ~node[1].is_dir])

\* str::to_lowercase
to_lowercase(s) ==
    [i \in 1..Len(s) |->
        IF \E j \in 1..Len(UPPER) : UPPER[j] = s[i]
        THEN LOWER[CHOOSE j \in 1..Len(UPPER) : UPPER[j] = s[i]]
        ELSE s[i]]

\* ListDirectoryTool::call: the lines of the listing
RECURSIVE listing(_)
listing(entries) ==
    IF entries = <<>> THEN <<>>
    ELSE (IF entries[1].is_dir THEN DIR_PREFIX ELSE FILE_PREFIX)
             \o <<" ">> \o file_name(entries[1].path) \o <<"\n">> \o listing(Tail(entries))

\* search_directory: the matches after the directory is searched, or the
\* error that ends the search
RECURSIVE search_directory(_, _, _)
RECURSIVE search_entries(_, _, _)
search_entries(entries, pattern, matches) ==
    IF entries = <<>> THEN Ok(matches)
    ELSE LET path == entries[1].path
             name == to_lowercase(file_name(path))
             pushed == IF contains(name, to_lowercase(pattern)) THEN Append(matches, path)
                       ELSE matches
             below == IF entries[1].is_dir THEN search_directory(path, pattern, pushed)
                      ELSE Ok(pushed)
         IN  IF ~below.ok THEN below
             ELSE search_entries(Tail(entries), pattern, below.val[1])

search_directory(dir, pattern, matches) ==
    LET entries == read_dir(dir)
    IN  IF ~entries.ok THEN entries
        ELSE search_entries(entries.val[1], pattern, matches)

\* the call of each tool after from_value: get_path(..)?, the read and the
\* text of the response
read_file(path, home) ==
    LET p == get_path(path, home)
    IN  IF ~p.ok THEN p ELSE read_to_string(p.val[1])

list_directory(path, home) ==
    LET p == get_path(path, home)
        entries == read_dir(p.val[1])
    IN  IF ~p.ok THEN p
        ELSE IF ~entries.ok THEN entries
        ELSE Ok(listing(entries.val[1]))

search_files(path, pattern, home) ==
    LET p == get_path(path, home)
        found == search_directory(p.val[1], pattern, <<>>)
    IN  IF ~p.ok THEN p
        ELSE IF ~found.ok THEN found
        ELSE Ok(join(found.val[1], <<"\n">>))

get_file_info(path, home) ==
    LET p == get_path(path, home)
    IN  IF ~p.ok THEN p ELSE metadata(p.val[1])

\* ListAllowedDirectoriesTool::call
list_allowed_directories == Ok(EMPTY_LIST)

\* ------------------------------------------------------------------------
\* Inputs of the model: requests, environment, pages the site answers with
\* ------------------------------------------------------------------------
F_NAME == <<"F">>
A_F_NAME == <<"a", ":", ":", "F">>
G_NAME == <<"G">>
A_B_F_NAME == <<"a", ":", ":", "b", ":", ":", "F">>
STRUCT_F_HTML == <<"s", "t", "r", "u", "c", "t", ".", "F", ".", "h", "t", "m", "l">>
A_STRUCT_F_HTML == <<"a", "/", "s", "t", "r", "u", "c", "t", ".", "F", ".", "h", "t", "m", "l">>
SLASH_A_STRUCT_F_HTML == <<"/", "a", "/", "s", "t", "r", "u", "c", "t", ".", "F", ".", "h", "t", "m", "l">>
ABS_STRUCT_F_HTML == <<"h", "t", "t", "p", ":", "/", "/", "h", "/", "s", "t", "r", "u", "c", "t", ".", "F", ".", "h", "t", "m", "l">>
ENUM_F_HTML == <<"e", "n", "u", "m", ".", "F", ".", "h", "t", "m", "l">>
SLASH_STRUCT_DIR == <<"/", "s", "t", "r", "u", "c", "t", "/">>
A_B_STRUCT_F_HTML == <<"a", "/", "b", "/", "s", "t", "r", "u", "c", "t", ".", "F", ".", "h", "t", "m", "l">>
X_STRUCT_F_HTML == <<"x", "/", "s", "t", "r", "u", "c", "t", ".", "F", ".", "h", "t", "m", "l">>

CrateNames == {<<"k">>, <<>>}

StructNames == {F_NAME, A_F_NAME, G_NAME}

EmptyOrF == {<<>>, F_NAME}

Versions == {None, Some(<<"9">>)}

\* values of DOCS_RS_URL in the process environment: unset, or a mirror
Envs == {None, Some(<<"h", "t", "t", "p", ":", "/", "/", "l">>)}

Anchor(text, href) == [text |-> text, href |-> href]

\* anchors of the structs section of an all-items page: the bare text with
\* every kind of href, the qualified text with the hrefs of a struct's page
StructAnchors ==
    {Anchor(F_NAME, h) : h \in {None, Some(STRUCT_F_HTML), Some(A_STRUCT_F_HTML),
                                Some(SLASH_A_STRUCT_F_HTML), Some(ABS_STRUCT_F_HTML),
                                Some(ENUM_F_HTML), Some(SLASH_STRUCT_DIR)}}
    \cup {Anchor(A_F_NAME, h) : h \in {Some(STRUCT_F_HTML), Some(A_STRUCT_F_HTML),
                                       Some(SLASH_A_STRUCT_F_HTML)}}

\* anchors of a struct that lies two modules deep: its href with the
\* directories of both modules, and an href without them
DeepAnchors ==
    {Anchor(A_B_F_NAME, Some(h)) : h \in {A_B_STRUCT_F_HTML, X_STRUCT_F_HTML}}

SectionSet == {sections[i] : i \in 1..Len(sections)}

AllItems(lists, table) == [lists |-> lists, table |-> table]

OneSection(k, links) == [s \in SectionSet |-> IF s = k THEN links ELSE <<>>]

TwoSections(k1, links1, k2, links2) ==
    [s \in SectionSet |-> IF s = k1 THEN links1 ELSE IF s = k2 THEN links2 ELSE <<>>]

\* all-items pages offered to find_struct_url: the old layout, the new
\* layout, and pages that carry both
StructPages ==
    {AllItems(OneSection(STRUCTS_KEY, l), <<>>) : l \in SeqUpTo(StructAnchors, MaxAnchors)}
    \cup {AllItems(OneSection(STRUCTS_KEY, <<>>), t) : t \in SeqUpTo(StructAnchors, MaxRows)}
    \cup {AllItems(OneSection(STRUCTS_KEY, <<a>>), <<b>>) :
              a \in StructAnchors, b \in StructAnchors}
    \cup {AllItems(OneSection(STRUCTS_KEY, <<a>>), <<>>) : a \in DeepAnchors}

E_HTML == <<"e", ".", "h", "t", "m", "l">>

\* anchors of an all-items page offered to scrape_items: one well-formed
\* anchor, and anchors that vary its text or its href
CatalogAnchors ==
    {Anchor(t, Some(E_HTML)) : t \in {F_NAME, <<" ", "F", "\n">>, <<" ">>, <<>>}}
    \cup {Anchor(F_NAME, h) :
              h \in {None, Some(<<" ">>), Some(<<"/", "e", ".", "h", "t", "m", "l">>),
                     Some(<<"h", "t", "t", "p", ":", "/", "/", "h", "/", "e">>),
                     Some(<<"m", "/", "/", "e", ".", "h", "t", "m", "l">>),
                     Some(<<" ", "m", "/", "e", ".", "h", "t", "m", "l", " ">>),
                     Some(<<"m", "/">>)}}

\* all-items pages offered to scrape_items: one section with several
\* anchors, and every pair of sections with a well-formed anchor in the
\* first and any anchor, or none, in the second
CatalogPages ==
    {AllItems(OneSection(k, l), <<>>) :
         k \in {STRUCTS_KEY, TYPES_KEY}, l \in SeqUpTo(CatalogAnchors, MaxAnchors)}
    \cup {AllItems(TwoSections(k1, <<Anchor(F_NAME, Some(E_HTML))>>, k2, l), <<>>) :
              k1 \in SectionSet, k2 \in SectionSet, l \in SeqUpTo(CatalogAnchors, 1)}

TypePage(top_doc, ms, t1, t2, t3, fs) ==
    [top_doc |-> top_doc, methods |-> ms, trait_impls |-> t1,
     synthetic_impls |-> t2, blanket_impls |-> t3, fields |-> fs]

OptText(t) == {None, Some(t)}

\* the function-name span lies inside the code header
MethodElems ==
    {[fn |-> fh[1], code_header |-> fh[2], docblock |-> d] :
         fh \in {<<None, None>>, <<None, Some(<<"f", "(", ")">>)>>,
                 <<Some(<<" ", "f">>), Some(<<"f", "(", ")">>)>>},
         d \in OptText(<<"d">>)}

\* a field with its name and any of the other sub-elements, a field with
\* none of them and a field without its name only
FieldElems ==
    {[name |-> Some(<<"x">>), type |-> t, docblock |-> d] :
         t \in OptText(<<"T">>), d \in OptText(<<"d">>)}
    \cup {[name |-> None, type |-> None, docblock |-> None],
          [name |-> None, type |-> Some(<<"T">>), docblock |-> Some(<<"d">>)]}

\* two method elements, and two field elements, each with all of its
\* sub-elements or with none
MethodPairs ==
    LET both == {[fn |-> None, code_header |-> None, docblock |-> None],
                 [fn |-> Some(<<"f">>), code_header |-> Some(<<"f", "(", ")">>),
                  docblock |-> Some(<<"d">>)]}
    IN  {<<a, b>> : a \in both, b \in both}

FieldPairs ==
    LET both == {[name |-> None, type |-> None, docblock |-> None],
                 [name |-> Some(<<"x">>), type |-> Some(<<"T">>), docblock |-> Some(<<"d">>)]}
    IN  {<<a, b>> : a \in both, b \in both}

\* type pages offered to fetch_docs: each family varies one part of the page
TypePages ==
    {TypePage(<<>>, <<>>, t1, t23[1], t23[2], <<>>) :
         t1 \in SeqUpTo({None, Some(<<>>), Some(<<"A">>)}, MaxImpls)
                    \cup {<<Some(<<"A">>), Some(<<"C">>)>>, <<Some(<<"C">>), Some(<<"A">>)>>},
         t23 \in {<< <<>>, <<>> >>, << <<>>, <<Some(<<"B">>)>> >>,
                  << <<Some(<<>>)>>, <<Some(<<"B">>)>> >>,
                  << <<Some(<<"S">>)>>, <<Some(<<"B">>)>> >>}}
    \cup {TypePage(d, <<>>, <<Some(<<"A">>)>>, <<>>, <<>>, <<>>) :
              d \in {<<<<" ", "d", " ">>>>, <<<<>>, <<"d">>>>}}
    \cup {TypePage(<<>>, ms, <<Some(<<"A">>)>>, <<>>, <<>>, <<>>) :
              ms \in SeqUpTo(MethodElems, MaxElems)}
    \cup {TypePage(<<<<"d">>>>, <<>>, <<>>, <<>>, <<>>, fs) : fs \in SeqUpTo(FieldElems, MaxElems)}
    \cup {TypePage(<<>>, ms, <<Some(<<"A">>)>>, <<>>, <<>>, <<>>) : ms \in MethodPairs}
    \cup {TypePage(<<<<"d">>>>, <<>>, <<>>, <<>>, <<>>, fs) : fs \in FieldPairs}

\* the arguments object a client sends for get_struct_docs
StructRequest(c, s, v) ==
    Some(Object({member("crate_name", String(c)), member("struct_name", String(s))}
                \cup (IF is_some(v) THEN {member("version", String(v[1]))} ELSE {})))

\* the arguments object a client sends for crate_items
ItemsRequest(c, v) ==
    Some(Object({member("crate_name", String(c))}
                \cup (IF is_some(v) THEN {member("version", String(v[1]))} ELSE {})))

\* inputs of other shapes handed to StructDocsTool::call: no input, a
\* required field missing, a field of another type, a null or a further
\* field, and values that are not objects
OddStructInputs ==
    {None,
     Some(Object({})),
     Some(Object({member("crate_name", String(<<"k">>))})),
     Some(Object({member("struct_name", String(F_NAME))})),
     Some(Object({member("crate_name", Number), member("struct_name", String(F_NAME))})),
     Some(Object({member("crate_name", String(<<"k">>)), member("struct_name", Null)})),
     Some(Object({member("crate_name", String(<<"k">>)), member("struct_name", String(F_NAME)),
                  member("version", Number)})),
     Some(Object({member("crate_name", String(<<"k">>)), member("struct_name", String(F_NAME)),
                  member("version", Null)})),
     Some(Object({member("crate_name", String(<<"k">>)), member("struct_name", String(F_NAME)),
                  member("extra", Number)})),
     Some(Array(<<String(<<"k">>), String(F_NAME), Null>>)),
     Some(Array(<<String(<<"k">>), String(F_NAME)>>)),
     Some(String(<<"k">>))}

\* inputs of other shapes handed to CrateItemsTool::call
OddItemsInputs ==
    {None,
     Some(Object({})),
     Some(Object({member("version", String(<<"9">>))})),
     Some(Object({member("crate_name", Number)})),
     Some(Object({member("crate_name", String(<<"k">>)), member("version", Number)})),
     Some(Object({member("crate_name", String(<<"k">>)), member("version", Null)})),
     Some(Array(<<String(<<"k">>), Null>>)),
     Some(Array(<<String(<<"k">>)>>)),
     Some(String(<<"k">>))}

\* what home::home_dir() returns: the home directory, or none
Homes == {None, Some(HOME_DIR)}

\* the arguments object a client sends for crate_info
InfoRequest(c) == Some(Object({member("crate_name", String(c))}))

InfoInputs ==
    {InfoRequest(<<"k">>), InfoRequest(<<>>), None, Some(Object({})),
     Some(Object({member("crate_name", Number)})), Some(Array(<<String(<<"k">>)>>))}

\* what `cargo info` writes for a crate: nothing, a name only, and texts
\* with keys, a features block and a note
CargoTexts ==
    {<<>>,
     <<"k">>,
     <<"\n", "d", "\n", "r", "u", "s", "t", "-", "v", "e", "r", "s", "i", "o", "n", ":", " ", "1", ":", "2">>,
     <<"k", " ", "#", "t", "\n", " ", "d", " ", "\n", "v", "e", "r", "s", "i", "o", "n", ":", " ", "1", "\n", "l", "i", "c", "e", "n", "s", "e", " ", ":", " ", "M", "\n", "x", ":", " ", "1", "\n", "p", "l", "a", "i", "n", "\n", "\n", "f", "e", "a", "t", "u", "r", "e", "s", ":", "\n", " ", "+", "a", " ", "=", " ", "[", "b", ",", " ", "c", "]", "\n", " ", "e", "\n", " ", "f", " ", "=", " ", "[", "]", "\n", "n", "o", "t", "e", ":", " ", "n", "\n", " ", "g">>}

\* what Command::output() can give for one candidate
CargoOutcomes ==
    {[ran |-> FALSE, success |-> FALSE, stdout |-> Some(<<>>), stderr |-> <<>>]}
    \cup {[ran |-> TRUE, success |-> FALSE, stdout |-> Some(<<>>), stderr |-> e] :
              e \in {<<"E", "1">>, <<"E", "2">>}}
    \cup {[ran |-> TRUE, success |-> TRUE, stdout |-> t, stderr |-> <<>>] :
              t \in {None} \cup {Some(text) : text \in CargoTexts}}

\* the arguments object a client sends for a tool that takes a path
PathRequest(p) == Some(Object({member("path", String(p))}))

PathInputs ==
    {PathRequest(p) : p \in {ETC_P, ETC_DIR, <<"/", "e", "t", "c", "/">>, <<"/", "n", "o">>,
                             <<"~", "/", "n">>, <<"~">>, <<"~", "x">>,
                             <<"~", "/", "/", "e", "t", "c", "/", "p">>}}
    \cup {None, Some(Object({})), Some(Object({member("path", Number)}))}

\* the arguments object a client sends for search_files
SearchRequest(p, t) == Some(Object({member("path", String(p)), member("pattern", String(t))}))

SearchInputs ==
    {SearchRequest(p, t) : p \in {ETC_DIR, <<"~">>, <<"/", "n", "o">>, ETC_P},
                           t \in {<<"p">>, <<"N">>, <<>>}}
    \cup {None, PathRequest(ETC_DIR),
          Some(Object({member("path", Number), member("pattern", String(<<"p">>))}))}

\* the inputs of the specification Spec: one invocation, any request, any
\* page, a network that may answer each request anew
Inputs ==
    [calls |-> 1,
     struct_inputs |-> {StructRequest(<<"k">>, s, v) : s \in StructNames, v \in Versions}
                       \cup {StructRequest(c, s, None) : c \in CrateNames, s \in EmptyOrF}
                       \cup {StructRequest(<<"k">>, A_B_F_NAME, None)}
                       \cup OddStructInputs,
     items_inputs |-> {ItemsRequest(c, v) : c \in CrateNames, v \in Versions}
                      \cup OddItemsInputs,
     struct_pages |-> StructPages, type_pages |-> TypePages,
     catalog_pages |-> CatalogPages,
     info_inputs |-> InfoInputs, cargo_outcomes |-> CargoOutcomes, homes |-> Homes,
     path_inputs |-> PathInputs, search_inputs |-> SearchInputs,
     fixed_site |-> FALSE]

\* the inputs of the specification SpecCalls: several invocations one after
\* the other, of a few requests against a site with a few pages that answers
\* a URL the same way every time
FewInputs ==
    [calls |-> MaxCalls,
     struct_inputs |-> {StructRequest(<<"k">>, F_NAME, None), None},
     items_inputs |-> {ItemsRequest(<<"k">>, None)},
     struct_pages |-> {AllItems(OneSection(STRUCTS_KEY,
                                   <<Anchor(F_NAME, Some(SLASH_A_STRUCT_F_HTML))>>), <<>>)},
     type_pages |-> {TypePage(<<<<"d">>>>, <<>>, <<Some(<<"A">>)>>, <<>>, <<>>, <<>>)},
     catalog_pages |-> {AllItems(OneSection(STRUCTS_KEY,
                                    <<Anchor(F_NAME, Some(E_HTML))>>), <<>>)},
     fixed_site |-> TRUE]

\* what the network can do with one GET for a page of the family pages
Outcomes(pages) ==
    {[send_ok |-> FALSE, status |-> 0, body |-> None]}
    \cup {[send_ok |-> TRUE, status |-> st, body |-> None] : st \in {200, 404, 500}}
    \cup {[send_ok |-> TRUE, status |-> 200, body |-> Some(p)] : p \in pages}

\* ------------------------------------------------------------------------
\* The tools as a state machine: one invocation at a time, a step per
\* network read and per parse; the actions that take input take it from
\* the sets of inputs.  The process environment can be set by the rest of
\* the process at any time.
\* ------------------------------------------------------------------------
VARIABLES
    pc,        \* where the running invocation is
    input,     \* the Option<Value> handed to call
    req,       \* the parameters deserialized from it
    env,       \* DOCS_RS_URL in the process environment
    roots,     \* the values get_docs_rs_url returned to this invocation
    target,    \* the URL the next read goes to
    page,      \* the document parsed from the last successful read
    ret,       \* the Result the invocation returned
    reads,     \* the URLs this invocation has read, in order
    replies,   \* how each of these reads was answered
    isolated,  \* the invocation runs inside tokio::task::block_in_place
    site,      \* the answers of a fixed site to the URLs read so far
    prev,      \* the invocation that returned last
    tally,     \* the invocations that have returned, and their reads
    candidates, \* cargo_paths of the running run_cargo_info
    spawned,   \* the commands it has run, each with its outcome
    last_error, \* its last_error
    output,    \* the Result it returned
    opened     \* the path the invocation went to the file system with

vars == <<pc, input, req, env, roots, target, page, ret, reads, replies, isolated,
          site, prev, tally, candidates, spawned, last_error, output, opened>>

NoReq == [op |-> "none", crate_name |-> <<>>, struct_name |-> <<>>, version |-> None]

Calls == tally.type_ok + tally.list_ok + tally.other_ok + tally.failed + tally.rejected

Init ==
    /\ pc = "idle"
    /\ input = None
    /\ req = NoReq
    /\ env \in Envs
    /\ roots = <<>>
    /\ target = None
    /\ page = None
    /\ ret = None
    /\ reads = <<>>
    /\ replies = <<>>
    /\ isolated = FALSE
    /\ site = {}
    /\ prev = None
    /\ tally = [type_ok |-> 0, list_ok |-> 0, other_ok |-> 0, failed |-> 0, rejected |-> 0,
                reads |-> 0]
    /\ candidates = <<>>
    /\ spawned = <<>>
    /\ last_error = None
    /\ output = None
    /\ opened = <<>>

\* the answers the network can give to a GET of url: any outcome, or, from
\* a fixed site, the outcome it gave to that URL before
Answers(pages, url) ==
    LET known == {e \in site : e.url = url}
    IN  IF known # {} THEN {e.outcome : e \in known} ELSE Outcomes(pages)

Remember(inputs, url, outcome) ==
    IF inputs.fixed_site THEN site \cup {[url |-> url, outcome |-> outcome]} ELSE site

Reply(outcome) ==
    [send_ok |-> outcome.send_ok, status |-> outcome.status, text |-> is_some(outcome.body)]

\* StructDocsTool::call: from_value(..)?, then inside block_in_place
\* fetch_docs -> find_struct_url, up to its fetch
CallGetStructDocs(inputs) ==
    /\ pc = "idle"
    /\ Calls < inputs.calls
    /\ \E i \in inputs.struct_inputs :
          LET params == StructDocsParams(unwrap_or(i, Null))
          IN  /\ input' = i
              /\ IF params.ok
                 THEN LET p == params.val[1]
                      IN  /\ req' = [op |-> "get_struct_docs", crate_name |-> p.crate_name,
                                     struct_name |-> p.struct_name, version |-> p.version]
                          /\ isolated' = TRUE
                          /\ roots' = <<get_docs_rs_url(env)>>
                          /\ target' = Some(all_items_url(get_docs_rs_url(env), p.crate_name,
                                                          p.version))
                          /\ pc' = "find_fetch"
                          /\ ret' = ret
                 ELSE /\ req' = [NoReq EXCEPT !.op = "get_struct_docs"]
                      /\ isolated' = FALSE
                      /\ roots' = <<>>
                      /\ target' = None
                      /\ pc' = "returned"
                      /\ ret' = Some(params)
    /\ UNCHANGED <<env, page, reads, replies, site, prev, tally,
                   candidates, spawned, last_error, output, opened>>

\* find_struct_url: self.fetch_html(&all_items_url)?
FetchAllItems(inputs) ==
    /\ pc = "find_fetch"
    /\ \E o \in Answers(inputs.struct_pages, target[1]) :
          LET fetched == fetch_html(target[1], o)
          IN  /\ IF fetched.ok
                 THEN /\ page' = Some(fetched.val[1])
                      /\ pc' = "find_select"
                      /\ ret' = ret
                 ELSE /\ page' = None
                      /\ pc' = "returned"
                      /\ ret' = Some(find_struct_url(fetched, roots[1], req.crate_name,
                                                     req.struct_name, req.version))
              /\ replies' = Append(replies, Reply(o))
              /\ site' = Remember(inputs, target[1], o)
    /\ reads' = Append(reads, target[1])
    /\ UNCHANGED <<input, req, env, roots, target, isolated, prev, tally,
                   candidates, spawned, last_error, output, opened>>

\* a slip: when no anchor matches, the conventional type-page URL is tried
\* instead of returning the failure
FindStructUrl_fallback ==
    /\ pc = "find_select"
    /\ LET found == find_struct_url(Ok(page[1]), get_docs_rs_url(env),
                                    req.crate_name, req.struct_name, req.version)
           guess == base_url(get_docs_rs_url(env), req.crate_name, req.version)
                        \o SLASH \o STRUCT \o <<".">> \o req.struct_name \o DOT_HTML
       IN  /\ target' = Some(IF found.ok THEN found.val[1] ELSE guess)
           /\ pc' = "docs_fetch"
           /\ ret' = ret
           /\ page' = None
           /\ roots' = Append(roots, get_docs_rs_url(env))
    /\ UNCHANGED <<input, req, env, reads, replies, isolated, site, prev, tally,
                   candidates, spawned, last_error, output, opened>>

\* find_struct_url from the parsed document to its return, and the `?` of
\* fetch_docs on it; get_docs_rs_url is called again when an anchor matched
FindStructUrl ==
    /\ pc = "find_select"
    /\ LET found == find_struct_url(Ok(page[1]), get_docs_rs_url(env),
                                    req.crate_name, req.struct_name, req.version)
       IN  IF found.ok
           THEN /\ target' = Some(found.val[1])
                /\ pc' = "docs_fetch"
                /\ ret' = ret
                /\ page' = None
                /\ roots' = Append(roots, get_docs_rs_url(env))
           ELSE /\ target' = None
                /\ pc' = "returned"
                /\ ret' = Some(found)
                /\ page' = page
                /\ roots' = roots
    /\ UNCHANGED <<input, req, env, reads, replies, isolated, site, prev, tally,
                   candidates, spawned, last_error, output, opened>>

\* a slip: a failed read of the type page is tried once more
FetchStructPage_retry(inputs) ==
    /\ pc = "docs_fetch"
    /\ \E o \in Answers(inputs.type_pages, target[1]) :
          LET fetched == fetch_html(target[1], o)
          IN  /\ IF fetched.ok
                 THEN /\ page' = Some(fetched.val[1])
                      /\ pc' = "docs_parse"
                      /\ ret' = ret
                 ELSE IF Len(reads) < 2
                 THEN /\ page' = None
                      /\ pc' = "docs_fetch"
                      /\ ret' = ret
                 ELSE /\ page' = None
                      /\ pc' = "returned"
                      /\ ret' = Some(fetched)
              /\ replies' = Append(replies, Reply(o))
              /\ site' = Remember(inputs, target[1], o)
    /\ reads' = Append(reads, target[1])
    /\ UNCHANGED <<input, req, env, roots, target, isolated, prev, tally,
                   candidates, spawned, last_error, output, opened>>

\* fetch_docs: self.fetch_html(&url)?
FetchStructPage(inputs) ==
    /\ pc = "docs_fetch"
    /\ \E o \in Answers(inputs.type_pages, target[1]) :
          LET fetched == fetch_html(target[1], o)
          IN  /\ IF fetched.ok
                 THEN /\ page' = Some(fetched.val[1])
                      /\ pc' = "docs_parse"
                      /\ ret' = ret
                 ELSE /\ page' = None
                      /\ pc' = "returned"
                      /\ ret' = Some(fetched)
              /\ replies' = Append(replies, Reply(o))
              /\ site' = Remember(inputs, target[1], o)
    /\ reads' = Append(reads, target[1])
    /\ UNCHANGED <<input, req, env, roots, target, isolated, prev, tally,
                   candidates, spawned, last_error, output, opened>>

\* a slip: the tool keeps what it has served and hands a type's record out
\* once; a later lookup gets the record without its description
ParseStructDocs_once ==
    /\ pc = "docs_parse"
    /\ LET docs == StructDocs(page[1], req.crate_name, req.struct_name)
       IN  ret' = Some(IF tally.type_ok > 0
                       THEN Ok([docs.val[1] EXCEPT !.description = <<>>])
                       ELSE docs)
    /\ pc' = "returned"
    /\ UNCHANGED <<input, req, env, roots, target, page, reads, replies, isolated, site,
                   prev, tally, candidates, spawned, last_error, output, opened>>

\* fetch_docs: the extraction and Ok(StructDocs { .. })
ParseStructDocs ==
    /\ pc = "docs_parse"
    /\ ret' = Some(StructDocs(page[1], req.crate_name, req.struct_name))
    /\ pc' = "returned"
    /\ UNCHANGED <<input, req, env, roots, target, page, reads, replies, isolated, site,
                   prev, tally, candidates, spawned, last_error, output, opened>>

\* CrateItemsTool::call: from_value(..)?, then scrape_items up to its request
CallCrateItems(inputs) ==
    /\ pc = "idle"
    /\ Calls < inputs.calls
    /\ \E i \in inputs.items_inputs :
          LET params == CrateNameParam(unwrap_or(i, Null))
          IN  /\ input' = i
              /\ IF params.ok
                 THEN LET p == params.val[1]
                      IN  /\ req' = [op |-> "crate_items", crate_name |-> p.crate_name,
                                     struct_name |-> <<>>, version |-> p.version]
                          /\ target' = Some(scrape_url(p.crate_name, p.version))
                          /\ pc' = "scrape_fetch"
                          /\ ret' = ret
                 ELSE /\ req' = [NoReq EXCEPT !.op = "crate_items"]
                      /\ target' = None
                      /\ pc' = "returned"
                      /\ ret' = Some(params)
    /\ UNCHANGED <<env, roots, page, reads, replies, isolated, site, prev, tally,
                   candidates, spawned, last_error, output, opened>>

\* scrape_items: the request, the status check and the body
ScrapeFetch(inputs) ==
    /\ pc = "scrape_fetch"
    /\ \E o \in Answers(inputs.catalog_pages, target[1]) :
          LET fetched == scrape_fetch(target[1], o)
          IN  /\ IF fetched.ok
                 THEN /\ page' = Some(fetched.val[1])
                      /\ pc' = "scrape_parse"
                      /\ ret' = ret
                 ELSE /\ page' = None
                      /\ pc' = "returned"
                      /\ ret' = Some(fetched)
              /\ replies' = Append(replies, Reply(o))
              /\ site' = Remember(inputs, target[1], o)
    /\ reads' = Append(reads, target[1])
    /\ UNCHANGED <<input, req, env, roots, target, isolated, prev, tally,
                   candidates, spawned, last_error, output, opened>>

\* scrape_items: the loop over the sections and Ok(CrateItems { .. })
ScrapeParse ==
    /\ pc = "scrape_parse"
    /\ ret' = Some(CrateItems(page[1], req.crate_name, req.version))
    /\ pc' = "returned"
    /\ UNCHANGED <<input, req, env, roots, target, page, reads, replies, isolated, site,
                   prev, tally, candidates, spawned, last_error, output, opened>>

\* CrateInfoTool::call: from_value(..)?, then run_cargo_info up to its loop
CallCrateInfo(inputs) ==
    /\ pc = "idle"
    /\ Calls < inputs.calls
    /\ \E i \in inputs.info_inputs, h \in inputs.homes :
          LET params == CrateInfoParam(unwrap_or(i, Null))
          IN  /\ input' = i
              /\ IF params.ok
                 THEN /\ req' = [NoReq EXCEPT !.op = "crate_info",
                                              !.crate_name = params.val[1].crate_name]
                      /\ candidates' = cargo_paths(h)
                      /\ pc' = "cargo_run"
                      /\ ret' = ret
                 ELSE /\ req' = [NoReq EXCEPT !.op = "crate_info"]
                      /\ candidates' = <<>>
                      /\ pc' = "returned"
                      /\ ret' = Some(params)
    /\ UNCHANGED <<env, roots, target, page, reads, replies, isolated, site, prev, tally,
                   spawned, last_error, output, opened>>

\* run_cargo_info: one iteration of `for cargo_path in cargo_paths`, and the
\* Err after the loop when the candidates are exhausted
RunCargo(inputs) ==
    /\ pc = "cargo_run"
    /\ \E o \in inputs.cargo_outcomes :
          LET cargo_path == candidates[Len(spawned) + 1]
              error == Some(cargo_error(cargo_path, o))
          IN  /\ spawned' = Append(spawned, [path |-> cargo_path, arg |-> req.crate_name,
                                             outcome |-> o])
              /\ IF o.ran /\ o.success
                 THEN /\ output' = Some(from_utf8(o.stdout))
                      /\ last_error' = last_error
                      /\ pc' = "info_parse"
                 ELSE IF Len(spawned) + 1 = Len(candidates)
                 THEN /\ output' = Some(no_cargo(error))
                      /\ last_error' = error
                      /\ pc' = "info_parse"
                 ELSE /\ output' = output
                      /\ last_error' = error
                      /\ pc' = "cargo_run"
    /\ UNCHANGED <<input, req, env, roots, target, page, ret, reads, replies, isolated,
                   site, prev, tally, candidates, opened>>

\* CrateInfoTool::call: the `?` on run_cargo_info, parse_cargo_info_output
\* and the response
ParseCargoInfo ==
    /\ pc = "info_parse"
    /\ ret' = Some(IF output[1].ok THEN parse_cargo_info_output(output[1].val[1])
                   ELSE output[1])
    /\ pc' = "returned"
    /\ UNCHANGED <<input, req, env, roots, target, page, reads, replies, isolated, site,
                   prev, tally, candidates, spawned, last_error, output, opened>>

\* ReadFileTool::call
CallReadFile(inputs) ==
    /\ pc = "idle"
    /\ Calls < inputs.calls
    /\ \E i \in inputs.path_inputs, h \in inputs.homes :
          LET params == PathParam(unwrap_or(i, Null))
              p == get_path(params.val[1].path, h)
          IN  /\ input' = i
              /\ ret' = Some(IF params.ok THEN read_file(params.val[1].path, h) ELSE params)
              /\ opened' = IF params.ok /\ p.ok THEN <<p.val[1]>> ELSE <<>>
    /\ req' = [NoReq EXCEPT !.op = "read_file"]
    /\ pc' = "returned"
    /\ UNCHANGED <<env, roots, target, page, reads, replies, isolated, site, prev, tally,
                   candidates, spawned, last_error, output>>

\* ListDirectoryTool::call
CallListDirectory(inputs) ==
    /\ pc = "idle"
    /\ Calls < inputs.calls
    /\ \E i \in inputs.path_inputs, h \in inputs.homes :
          LET params == PathParam(unwrap_or(i, Null))
              p == get_path(params.val[1].path, h)
          IN  /\ input' = i
              /\ ret' = Some(IF params.ok THEN list_directory(params.val[1].path, h)
                             ELSE params)
              /\ opened' = IF params.ok /\ p.ok THEN <<p.val[1]>> ELSE <<>>
    /\ req' = [NoReq EXCEPT !.op = "list_directory"]
    /\ pc' = "returned"
    /\ UNCHANGED <<env, roots, target, page, reads, replies, isolated, site, prev, tally,
                   candidates, spawned, last_error, output>>

\* SearchFilesTool::call
CallSearchFiles(inputs) ==
    /\ pc = "idle"
    /\ Calls < inputs.calls
    /\ \E i \in inputs.search_inputs, h \in inputs.homes :
          LET params == SearchParam(unwrap_or(i, Null))
              p == get_path(params.val[1].path, h)
          IN  /\ input' = i
              /\ ret' = Some(IF params.ok
                             THEN search_files(params.val[1].path, params.val[1].pattern, h)
                             ELSE params)
              /\ opened' = IF params.ok /\ p.ok THEN <<p.val[1]>> ELSE <<>>
    /\ req' = [NoReq EXCEPT !.op = "search_files"]
    /\ pc' = "returned"
    /\ UNCHANGED <<env, roots, target, page, reads, replies, isolated, site, prev, tally,
                   candidates, spawned, last_error, output>>

\* GetFileInfoTool::call
CallGetFileInfo(inputs) ==
    /\ pc = "idle"
    /\ Calls < inputs.calls
    /\ \E i \in inputs.path_inputs, h \in inputs.homes :
          LET params == PathParam(unwrap_or(i, Null))
              p == get_path(params.val[1].path, h)
          IN  /\ input' = i
              /\ ret' = Some(IF params.ok THEN get_file_info(params.val[1].path, h) ELSE params)
              /\ opened' = IF params.ok /\ p.ok THEN <<p.val[1]>> ELSE <<>>
    /\ req' = [NoReq EXCEPT !.op = "get_file_info"]
    /\ pc' = "returned"
    /\ UNCHANGED <<env, roots, target, page, reads, replies, isolated, site, prev, tally,
                   candidates, spawned, last_error, output>>

\* ListAllowedDirectoriesTool::call: the input is not looked at
CallListAllowedDirectories(inputs) ==
    /\ pc = "idle"
    /\ Calls < inputs.calls
    /\ \E i \in inputs.path_inputs : input' = i
    /\ ret' = Some(list_allowed_directories)
    /\ req' = [NoReq EXCEPT !.op = "list_allowed_directories"]
    /\ pc' = "returned"
    /\ UNCHANGED <<env, roots, target, page, reads, replies, isolated, site, prev, tally,
                   candidates, spawned, last_error, output, opened>>

\* the caller takes the result; the locals of the invocation are dropped
Return ==
    /\ pc = "returned"
    /\ tally' = [type_ok |-> tally.type_ok
                                + (IF ret[1].ok /\ req.op = "get_struct_docs" THEN 1 ELSE 0),
                 list_ok |-> tally.list_ok
                                + (IF ret[1].ok /\ req.op = "crate_items" THEN 1 ELSE 0),
                 other_ok |-> tally.other_ok
                                + (IF ret[1].ok /\ req.op \notin {"get_struct_docs", "crate_items"}
                                   THEN 1 ELSE 0),
                 failed |-> tally.failed + (IF ~ret[1].ok /\ reads # <<>> THEN 1 ELSE 0),
                 rejected |-> tally.rejected + (IF ~ret[1].ok /\ reads = <<>> THEN 1 ELSE 0),
                 reads |-> tally.reads + Len(reads)]
    /\ prev' = Some([op |-> req.op, input |-> input, roots |-> roots, ret |-> ret[1]])
    /\ pc' = "idle"
    /\ input' = None
    /\ req' = NoReq
    /\ roots' = <<>>
    /\ target' = None
    /\ ret' = None
    /\ reads' = <<>>
    /\ replies' = <<>>
    /\ isolated' = FALSE
    /\ page' = None
    /\ candidates' = <<>>
    /\ spawned' = <<>>
    /\ last_error' = None
    /\ output' = None
    /\ opened' = <<>>
    /\ UNCHANGED <<env, site>>

\* the rest of the process sets or removes DOCS_RS_URL (std::env::set_var,
\* remove_var): the environment is one per process
SetDocsRsUrl ==
    /\ env' \in Envs \ {env}
    /\ UNCHANGED <<pc, input, req, roots, target, page, ret, reads, replies, isolated,
                   site, prev, tally, candidates, spawned, last_error, output, opened>>

Next ==
    \/ CallGetStructDocs(Inputs)
    \/ FetchAllItems(Inputs)
    \/ FindStructUrl
    \/ FetchStructPage(Inputs)
    \/ ParseStructDocs
    \/ CallCrateItems(Inputs)
    \/ ScrapeFetch(Inputs)
    \/ ScrapeParse
    \/ CallCrateInfo(Inputs)
    \/ RunCargo(Inputs)
    \/ ParseCargoInfo
    \/ CallReadFile(Inputs)
    \/ CallListDirectory(Inputs)
    \/ CallSearchFiles(Inputs)
    \/ CallGetFileInfo(Inputs)
    \/ CallListAllowedDirectories(Inputs)
    \/ Return
    \/ SetDocsRsUrl

Spec == Init /\ [][Next]_vars

NextCalls ==
    \/ CallGetStructDocs(FewInputs)
    \/ FetchAllItems(FewInputs)
    \/ FindStructUrl
    \/ FetchStructPage(FewInputs)
    \/ ParseStructDocs
    \/ CallCrateItems(FewInputs)
    \/ ScrapeFetch(FewInputs)
    \/ ScrapeParse
    \/ Return
    \/ SetDocsRsUrl

SpecCalls == Init /\ [][NextCalls]_vars

TypeOK ==
    /\ pc \in {"idle", "find_fetch", "find_select", "docs_fetch", "docs_parse",
               "scrape_fetch", "scrape_parse", "cargo_run", "info_parse", "returned"}
    /\ Len(reads) <= 2
    /\ Calls <= MaxCalls

\* ------------------------------------------------------------------------
\* Properties
\* ------------------------------------------------------------------------
Returned(op) == pc = "returned" /\ req.op = op

\* the running invocation's input deserialized into its parameters
Deserialized ==
    \/ req.op = "get_struct_docs" /\ StructDocsParams(unwrap_or(input, Null)).ok
    \/ req.op = "crate_items" /\ CrateNameParam(unwrap_or(input, Null)).ok

\* some message of the error chain contains the text
mentions(chain, text) == \E i \in 1..Len(chain) : contains(chain[i], text)

\* the anchors both layouts of the page list as structs, with their marker
ListedStructs(doc) ==
    {a \in {doc.lists[STRUCTS_KEY][i] : i \in 1..Len(doc.lists[STRUCTS_KEY])}
           \cup {doc.table[i] : i \in 1..Len(doc.table)} :
        contains(unwrap_or(a.href, <<>>), STRUCT)}

\* C1: for every struct that the fetched all-items page lists inside a
\* module (anchor text `module::Foo`), find_struct_url with the bare name
\* `Foo` and with the qualified name `module::Foo` both succeed and return
\* the same URL.
C1_BareAndQualifiedAgree ==
    pc = "find_select" =>
        \A a \in ListedStructs(page[1]) :
            module_path(a.text) # <<>> =>
                LET root == get_docs_rs_url(env)
                    bare == find_struct_url(Ok(page[1]), root, req.crate_name,
                                unwrap_or(struct_name_without_path(a.text), <<>>),
                                req.version)
                    qualified == find_struct_url(Ok(page[1]), root, req.crate_name,
                                     a.text, req.version)
                IN  bare.ok /\ qualified.ok /\ bare.val = qualified.val

\* C2: whenever get_struct_docs succeeds, the name of the returned record
\* is the caller's struct_name string and its crate_name the caller's
\* crate_name string, whatever the qualification and the layout that
\* resolved it.
C2_NameEchoesInput ==
    (Returned("get_struct_docs") /\ ret[1].ok) =>
        /\ ret[1].val[1].name = req.struct_name
        /\ ret[1].val[1].crate_name = req.crate_name

\* a module-qualified request for a named package has returned its record
C2_Witness ==
    /\ Returned("get_struct_docs")
    /\ ret[1].ok
    /\ req.struct_name = A_F_NAME
    /\ ret[1].val[1].name = A_F_NAME
    /\ req.crate_name # <<>>

\* the non-empty trait names of the implementation blocks of one section
RECURSIVE TierNames(_)
TierNames(impls) ==
    IF impls = <<>> THEN <<>>
    ELSE (IF impls[1] # None /\ impls[1] # Some(<<>>) THEN <<impls[1][1]>> ELSE <<>>)
             \o TierNames(Tail(impls))

Range(seq) == {seq[i] : i \in 1..Len(seq)}

\* C3: the traits of a returned record come from exactly one tier: the
\* explicit section's names when it yields any, and then no name of the
\* synthetic or blanket sections; the synthetic names only when the
\* explicit tier yielded nothing; the blanket names only when both did.
C3_TraitsFromOneTier ==
    (Returned("get_struct_docs") /\ ret[1].ok) =>
        LET explicit == TierNames(page[1].trait_impls)
            synthetic == TierNames(page[1].synthetic_impls)
            blanket == TierNames(page[1].blanket_impls)
            result == ret[1].val[1].traits
        IN  /\ explicit # <<>> =>
                /\ result = explicit
                /\ Range(result) \cap ((Range(synthetic) \cup Range(blanket)) \ Range(explicit)) = {}
            /\ (explicit = <<>> /\ synthetic # <<>>) =>
                /\ result = synthetic
                /\ Range(result) \cap (Range(blanket) \ Range(synthetic)) = {}
            /\ (explicit = <<>> /\ synthetic = <<>>) => result = blanket

\* a page with names in all three sections was extracted
C3_Witness ==
    /\ Returned("get_struct_docs")
    /\ ret[1].ok
    /\ TierNames(page[1].trait_impls) # <<>>
    /\ TierNames(page[1].synthetic_impls) # <<>>
    /\ TierNames(page[1].blanket_impls) # <<>>

\* the anchors of a section that scrape_items retains
Retained(links) ==
    {i \in 1..Len(links) : trim(links[i].text) # <<>>
                           /\ trim(unwrap_or(links[i].href, <<>>)) # <<>>}

\* C4: in every successful crate_items result each category present has at
\* least one item, and a category whose section has no retained anchor is
\* absent from the mapping.
C4_NoEmptyCategory ==
    (Returned("crate_items") /\ ret[1].ok) =>
        LET items == ret[1].val[1].items
        IN  /\ \A label \in DOMAIN items : Len(items[label]) > 0
            /\ \A k \in SectionSet :
                   Retained(page[1].lists[k]) = {} => section_name(k) \notin DOMAIN items

\* a section with anchors, none of them retained, next to a section that is
\* listed
C4_Witness ==
    /\ Returned("crate_items")
    /\ ret[1].ok
    /\ DOMAIN ret[1].val[1].items # {}
    /\ \E k \in SectionSet :
           /\ page[1].lists[k] # <<>>
           /\ Retained(page[1].lists[k]) = {}
           /\ section_name(k) \notin DOMAIN ret[1].val[1].items

HTTPS_SCHEME == <<"h", "t", "t", "p", "s", ":", "/", "/">>
HTTP_SCHEME == <<"h", "t", "t", "p", ":", "/", "/">>
DOUBLE_SLASH == <<"/", "/">>

AfterScheme(u) ==
    IF starts_with(u, HTTPS_SCHEME) THEN SliceFrom(u, Len(HTTPS_SCHEME))
    ELSE IF starts_with(u, HTTP_SCHEME) THEN SliceFrom(u, Len(HTTP_SCHEME))
    ELSE u

\* `https://docs.rs/<package>/<version>/<package>/`
VersionedBase(crate_name, version) ==
    HTTPS_SCHEME \o <<"d", "o", "c", "s", ".", "r", "s">> \o SLASH \o crate_name \o SLASH
        \o unwrap_or(version, LATEST) \o SLASH \o crate_name \o SLASH

ReturnedItems ==
    LET items == ret[1].val[1].items
    IN  UNION {Range(items[label]) : label \in DOMAIN items}

\* C5 as claimed, for a named package: every returned item's doc_link
\* starts with the versioned base URL, ends with `.html` and has no doubled
\* separator after the scheme, whatever the anchor's href.
C5_EveryLinkWellFormed ==
    (Returned("crate_items") /\ ret[1].ok /\ req.crate_name # <<>>) =>
        \A item \in ReturnedItems :
            /\ starts_with(item.doc_link, VersionedBase(req.crate_name, req.version))
            /\ ends_with(item.doc_link, DOT_HTML)
            /\ ~contains(AfterScheme(item.doc_link), DOUBLE_SLASH)

\* C5 amended: for every returned item whose href does not start with
\* `http`, doc_link starts with the versioned base URL; it ends with
\* `.html` whenever the href does; and it has no doubled separator after
\* the scheme whenever the base URL has none and the href has none after
\* its leading separators.
C5_RelativeLinkWellFormed ==
    (Returned("crate_items") /\ ret[1].ok) =>
        \A item \in ReturnedItems :
            ~starts_with(item.path, HTTP) =>
                LET base == VersionedBase(req.crate_name, req.version)
                IN  /\ starts_with(item.doc_link, base)
                    /\ ends_with(item.path, DOT_HTML) => ends_with(item.doc_link, DOT_HTML)
                    /\ (/\ ~contains(AfterScheme(base), DOUBLE_SLASH)
                        /\ ~contains(trim_start_matches(item.path, "/"), DOUBLE_SLASH))
                           => ~contains(AfterScheme(item.doc_link), DOUBLE_SLASH)

\* an item whose href has a leading separator was returned for a named
\* package
C5_Witness ==
    /\ Returned("crate_items")
    /\ ret[1].ok
    /\ req.crate_name # <<>>
    /\ \E item \in ReturnedItems :
           /\ starts_with(item.path, SLASH)
           /\ ends_with(item.doc_link, DOT_HTML)
           /\ ~contains(AfterScheme(item.doc_link), DOUBLE_SLASH)

\* C6: a get_struct_docs invocation reads at most twice, the all-items
\* page first and the resolved type page second, and exactly twice when it
\* succeeds; a crate_items invocation that gets to scrape_items (its input
\* deserialized) reads exactly once; no read is repeated, so the
\* invocations that have returned account for exactly two reads per
\* successful lookup, one per successful listing, one or two per failed
\* invocation and none per input that did not deserialize.
C6_ReadsPerInvocation ==
    /\ req.op = "get_struct_docs" =>
           /\ Len(reads) <= 2
           /\ Len(reads) >= 1 => ends_with(reads[1], SLASH \o ALL_HTML)
           /\ Len(reads) = 2 => (is_some(target) /\ reads[2] = target[1])
    /\ (Returned("get_struct_docs") /\ Deserialized) =>
           /\ Len(reads) >= 1
           /\ ret[1].ok => Len(reads) = 2
    /\ req.op = "crate_items" => Len(reads) <= 1
    /\ (Returned("crate_items") /\ Deserialized) => Len(reads) = 1
    /\ tally.reads >= 2 * tally.type_ok + tally.list_ok + tally.failed
    /\ tally.reads <= 2 * tally.type_ok + tally.list_ok + 2 * tally.failed
    /\ tally.failed = 0 => tally.reads = 2 * tally.type_ok + tally.list_ok

\* two lookups have succeeded one after the other, with four reads
C6_Witness ==
    /\ pc = "idle"
    /\ tally.type_ok = 2
    /\ tally.failed = 0
    /\ tally.reads = 4

\* no anchor of either layout satisfies the match predicate
NoAnchorMatches(doc, struct_name) ==
    /\ \A i \in 1..Len(doc.lists[STRUCTS_KEY]) :
           ~link_matches(doc.lists[STRUCTS_KEY][i], struct_name)
    /\ \A i \in 1..Len(doc.table) : ~link_matches(doc.table[i], struct_name)

\* C7: the type page is read only after the all-items read has returned
\* and the resolver has produced the URL that is read; when the all-items
\* read fails or no anchor matches, the invocation returns that failure at
\* once, with no further read and no record.
C7_TypePageAfterResolve ==
    [][/\ (req.op = "get_struct_docs" /\ Len(reads) >= 1 /\ Len(reads') > Len(reads)) =>
              /\ Len(reads) = 1
              /\ ends_with(reads[1], SLASH \o ALL_HTML)
              /\ pc = "docs_fetch"
              /\ is_some(target)
              /\ reads' = Append(reads, target[1])
       /\ (pc = "find_fetch" /\ pc' \notin {"find_fetch", "find_select"}) =>
              /\ pc' = "returned"
              /\ ~ret'[1].ok
              /\ ret'[1].val = <<>>
              /\ Len(reads') = 1
       /\ (pc = "find_select" /\ pc' # pc /\ NoAnchorMatches(page[1], req.struct_name)) =>
              /\ pc' = "returned"
              /\ ~ret'[1].ok
              /\ ret'[1].val = <<>>
              /\ reads' = reads
       /\ (pc = "find_select" /\ pc' # pc /\ ~NoAnchorMatches(page[1], req.struct_name)) =>
              /\ pc' = "docs_fetch"
              /\ is_some(target')
              /\ reads' = reads
       /\ (pc' = "returned" /\ req'.op = "get_struct_docs" /\ Len(reads') = 1) =>
              ~ret'[1].ok
      ]_vars

\* a lookup whose all-items page had no matching anchor has returned after
\* its single read
C7_Witness ==
    /\ Returned("get_struct_docs")
    /\ is_some(page)
    /\ Len(reads) = 1
    /\ ~ret[1].ok
    /\ ret[1].val = <<>>

\* C8: once the type page has been fetched, fetch_docs returns a record
\* whatever the page holds: a missing description, method sub-element,
\* trait section or field sub-element empties that field only.
C8_ExtractionNeverFails ==
    (Returned("get_struct_docs") /\ Len(reads) = 2 /\ is_some(page)) =>
        /\ ret[1].ok
        /\ LET doc == page[1]
               docs == ret[1].val[1]
           IN  /\ doc.top_doc = <<>> => docs.description = <<>>
               /\ Len(docs.methods) = Len(doc.methods)
               /\ \A i \in 1..Len(doc.methods) :
                      /\ doc.methods[i].fn = None => docs.methods[i].name = <<>>
                      /\ doc.methods[i].code_header = None => docs.methods[i].signature = <<>>
                      /\ doc.methods[i].docblock = None => docs.methods[i].description = <<>>
               /\ (/\ doc.trait_impls = <<>>
                   /\ doc.synthetic_impls = <<>>
                   /\ doc.blanket_impls = <<>>) => docs.traits = <<>>
               /\ Len(docs.fields) = Len(doc.fields)
               /\ \A i \in 1..Len(doc.fields) :
                      /\ doc.fields[i].name = None => docs.fields[i].name = <<>>
                      /\ doc.fields[i].type = None => docs.fields[i].type_name = <<>>
                      /\ doc.fields[i].docblock = None => docs.fields[i].description = <<>>

\* a page without a description, whose method has no sub-element, was
\* extracted
C8_Witness ==
    /\ Returned("get_struct_docs")
    /\ Len(reads) = 2
    /\ is_some(page)
    /\ ret[1].ok
    /\ page[1].top_doc = <<>>
    /\ \E i \in 1..Len(page[1].methods) :
           /\ page[1].methods[i].fn = None
           /\ page[1].methods[i].code_header = None
           /\ page[1].methods[i].docblock = None

\* C9, for a named package and a supplied version: when the all-items page
\* was fetched and no anchor of either layout matches, the failure returned
\* names the requested type, the package and the version.
C9_NotFoundNamesVersion ==
    (/\ Returned("get_struct_docs")
     /\ req.crate_name # <<>>
     /\ is_some(req.version)
     /\ Len(reads) = 1
     /\ is_some(page)
     /\ NoAnchorMatches(page[1], req.struct_name)) =>
        /\ ~ret[1].ok
        /\ mentions(ret[1].err, req.struct_name)
        /\ mentions(ret[1].err, req.crate_name)
        /\ mentions(ret[1].err, unwrap_or(req.version, LATEST))

\* C10: every failure of the production fetcher (a failed send, a
\* non-success status, an unreadable body) is returned as an error that
\* carries the URL that was attempted, with a cause.
C10_FetchErrorCarriesUrl ==
    (Returned("get_struct_docs") /\ ~is_some(page) /\ Len(reads) >= 1) =>
        /\ ~ret[1].ok
        /\ Len(ret[1].err) >= 1
        /\ mentions(ret[1].err, reads[Len(reads)])

\* C11: a get_struct_docs request whose crate_name or struct_name is the
\* empty string, and a crate_items request whose crate_name is the empty
\* string, is rejected before any read: the invocation reads nothing and
\* what it returns is an error.
C11_EmptyNameRejected ==
    (/\ Deserialized
     /\ \/ req.crate_name = <<>>
        \/ req.op = "get_struct_docs" /\ req.struct_name = <<>>) =>
        /\ reads = <<>>
        /\ pc = "returned" => ~ret[1].ok

\* the three fields of StructDocsParams
PARAM_KEYS == {"crate_name", "struct_name", "version"}

\* an input as C12 describes it: absent, or an object without crate_name or
\* without struct_name, or an object in which one of the fields has a value
\* that is not a string
AbsentOrIllTyped(i) ==
    \/ ~is_some(i)
    \/ /\ i[1].kind = "object"
       /\ \/ ~is_some(get(i[1].members, "crate_name"))
          \/ ~is_some(get(i[1].members, "struct_name"))
          \/ \E m \in i[1].members : m.key \in PARAM_KEYS /\ m.value.kind # "string"

\* C12 as claimed: StructDocsTool::call returns an error and reads nothing
\* whenever the input is absent, crate_name or struct_name is missing, or a
\* field has a value that is not a string.
C12_IllTypedInputRejected ==
    (req.op = "get_struct_docs" /\ AbsentOrIllTyped(input)) =>
        /\ pc = "returned"
        /\ ~ret[1].ok
        /\ reads = <<>>

\* a value a String field takes, and a value the version field takes
IsString(o) == is_some(o) /\ o[1].kind = "string"

IsStringOrNull(o) == ~is_some(o) \/ o[1].kind \in {"string", "null"}

\* an input that is absent, or neither an object nor an array of three
\* elements, or in which crate_name or struct_name is missing or not a
\* string, or in which version is neither missing, nor null, nor a string
Malformed(i) ==
    \/ ~is_some(i)
    \/ i[1].kind \notin {"object", "array"}
    \/ /\ i[1].kind = "object"
       /\ \/ ~IsString(get(i[1].members, "crate_name"))
          \/ ~IsString(get(i[1].members, "struct_name"))
          \/ ~IsStringOrNull(get(i[1].members, "version"))
    \/ /\ i[1].kind = "array"
       /\ \/ Len(i[1].elems) # 3
          \/ i[1].elems[1].kind # "string"
          \/ i[1].elems[2].kind # "string"
          \/ i[1].elems[3].kind \notin {"string", "null"}

\* C12 amended: StructDocsTool::call returns an error and reads nothing
\* whenever the input is absent or is neither an object nor an array of
\* three elements, crate_name or struct_name is missing or is not a string,
\* or version is present with a value that is neither a string nor null.
C12_MalformedInputRejected ==
    (req.op = "get_struct_docs" /\ Malformed(input)) =>
        /\ pc = "returned"
        /\ ~ret[1].ok
        /\ reads = <<>>

\* an object whose crate_name is a number was handed to call and refused
C12_Witness ==
    /\ Returned("get_struct_docs")
    /\ is_some(input)
    /\ input[1].kind = "object"
    /\ \E m \in input[1].members : m.key = "crate_name" /\ m.value.kind = "number"
    /\ ~ret[1].ok
    /\ reads = <<>>

\* `<site-root>/<package>/<version>/<package>`
SiteBase(root, crate_name, version) ==
    root \o SLASH \o crate_name \o SLASH \o unwrap_or(version, LATEST) \o SLASH \o crate_name

\* the path of a struct's page below the base, as the all-items page of
\* docs.rs writes its href: the modules of the name as directories, then
\* `struct.<TypeName>.html`
TypePagePath(name) ==
    LET parts == split(name, COLONS)
        file == STRUCT \o <<".">> \o parts[Len(parts)] \o DOT_HTML
    IN  IF Len(parts) = 1 THEN file
        ELSE join(SubSeq(parts, 1, Len(parts) - 1), SLASH) \o SLASH \o file

\* the anchor the result is derived from: the first match of the list
\* layout, or else the first match of the table layout
MatchedAnchor(doc, struct_name) ==
    LET listed == find(doc.lists[STRUCTS_KEY], struct_name)
    IN  IF is_some(listed) THEN listed ELSE find(doc.table, struct_name)

\* C13: when the matched anchor carries the relative href of the requested
\* struct's page, the URL find_struct_url returns is the base
\* `<site-root>/<package>/<version>/<package>` followed by
\* `/struct.<TypeName>.html`, with the module path of a qualified request
\* as directories before the file name; the all-items page read is the base
\* followed by `/all.html`.
C13_UrlBitExact ==
    (pc = "find_select" /\ req.crate_name # <<>>) =>
        LET root == get_docs_rs_url(env)
            hit == MatchedAnchor(page[1], req.struct_name)
            found == find_struct_url(Ok(page[1]), root, req.crate_name, req.struct_name,
                                     req.version)
        IN  /\ reads[1] = SiteBase(roots[1], req.crate_name, req.version) \o SLASH \o ALL_HTML
            /\ (is_some(hit) /\ hit[1].href = Some(TypePagePath(req.struct_name))) =>
                   /\ found.ok
                   /\ found.val[1] = SiteBase(root, req.crate_name, req.version)
                                         \o SLASH \o TypePagePath(req.struct_name)

\* C14 as claimed, for a named package and the default site root: every
\* URL that find_struct_url returns is absolute and ends in `.html`.
C14_UrlAbsoluteHtml ==
    (pc = "docs_fetch" /\ req.crate_name # <<>> /\ roots[Len(roots)] = DOCS_RS) =>
        /\ \/ starts_with(target[1], HTTPS_SCHEME)
           \/ starts_with(target[1], HTTP_SCHEME)
        /\ ends_with(target[1], DOT_HTML)
        /\ ~ends_with(target[1], SLASH)

\* C14 amended: every URL that find_struct_url returns is non-empty and is
\* derived from the matched href; an href that starts with `http` is
\* returned unchanged; any other href is appended to the base
\* `<site-root>/<package>/<version>/<package>`, so that the URL starts with
\* the base, is absolute whenever the site root is, and ends in `.html`
\* whenever the href does.
C14_UrlFromHref ==
    pc = "find_select" =>
        LET root == get_docs_rs_url(env)
            hit == MatchedAnchor(page[1], req.struct_name)
            found == find_struct_url(Ok(page[1]), root, req.crate_name, req.struct_name,
                                     req.version)
        IN  found.ok =>
                /\ found.val[1] # <<>>
                /\ is_some(hit)
                /\ is_some(hit[1].href)
                /\ LET href == hit[1].href[1]
                       url == found.val[1]
                   IN  /\ starts_with(href, HTTP) => url = href
                       /\ ~starts_with(href, HTTP) =>
                              /\ starts_with(url, SiteBase(root, req.crate_name, req.version))
                              /\ starts_with(root, HTTPS_SCHEME) => starts_with(url, HTTPS_SCHEME)
                              /\ starts_with(root, HTTP_SCHEME) => starts_with(url, HTTP_SCHEME)
                              /\ ends_with(href, DOT_HTML) => ends_with(url, DOT_HTML)

\* a qualified request has matched an anchor whose relative href lacks the
\* module, so that the module path is spliced in
C14_Witness ==
    /\ pc = "find_select"
    /\ req.struct_name = A_F_NAME
    /\ req.crate_name # <<>>
    /\ LET hit == MatchedAnchor(page[1], req.struct_name)
       IN  /\ is_some(hit)
           /\ hit[1].href = Some(STRUCT_F_HTML)
    /\ find_struct_url(Ok(page[1]), get_docs_rs_url(env), req.crate_name, req.struct_name,
                       req.version).ok

\* every value of DOCS_RS_URL in the sequence is the same
SameRoot(rs) == \A i \in 1..Len(rs) : \A j \in 1..Len(rs) : rs[i] = rs[j]

\* the invocation that returned last was a get_struct_docs with the input
\* of the running one
SameLookupBefore ==
    /\ Returned("get_struct_docs")
    /\ is_some(prev)
    /\ prev[1].op = "get_struct_docs"
    /\ prev[1].input = input

SameCallAloneBefore ==
    /\ pc = "returned"
    /\ is_some(prev)
    /\ prev[1].op = req.op
    /\ prev[1].input = input
    /\ SameRoot(prev[1].roots)
    /\ \/ prev[1].roots = <<>> /\ roots = <<>>
       \/ prev[1].roots # <<>> /\ roots # <<>> /\ prev[1].roots[1] = roots[1]

\* C16, against a site that answers a URL the same way every time: whatever
\* else happens in the process while an invocation runs, it returns the
\* result the same invocation returned when it ran alone.
C16_SameAsAlone ==
    SameCallAloneBefore => ret[1] = prev[1].ret

\* C17: every network read of either tool runs inside a section isolated
\* as blocking work: an invocation that is about to read, or has read, is
\* inside tokio::task::block_in_place.
C17_ReadsIsolated ==
    (pc \in {"find_fetch", "docs_fetch", "scrape_fetch"} \/ reads # <<>>) => isolated

\* the label each section key is surfaced under
LabelOf(k) ==
    CASE k = <<"m", "a", "c", "r", "o", "s">> -> <<"M", "a", "c", "r", "o", "s">>
      [] k = <<"s", "t", "r", "u", "c", "t", "s">> -> <<"S", "t", "r", "u", "c", "t", "s">>
      [] k = <<"e", "n", "u", "m", "s">> -> <<"E", "n", "u", "m", "s">>
      [] k = <<"t", "r", "a", "i", "t", "s">> -> <<"T", "r", "a", "i", "t", "s">>
      [] k = <<"f", "u", "n", "c", "t", "i", "o", "n", "s">>
             -> <<"F", "u", "n", "c", "t", "i", "o", "n", "s">>
      [] k = <<"t", "y", "p", "e", "s">>
             -> <<"T", "y", "p", "e", " ", "A", "l", "i", "a", "s", "e", "s">>
      [] k = <<"a", "t", "t", "r", "i", "b", "u", "t", "e", "s">>
             -> <<"A", "t", "t", "r", "i", "b", "u", "t", "e", "s">>

Labels == {LabelOf(k) : k \in SectionSet}

\* the anchors of a section that are retained, in document order
Kept(links) ==
    SelectSeq(links, LAMBDA l : trim(l.text) # <<>> /\ trim(unwrap_or(l.href, <<>>)) # <<>>)

\* C18: every key of the mapping crate_items returns is one of the seven
\* labels, and the items found under section key k are listed under the
\* label of k: the title-cased key, `Type Aliases` for `types`.
C18_CategoryLabels ==
    (Returned("crate_items") /\ ret[1].ok) =>
        LET items == ret[1].val[1].items
        IN  /\ Cardinality(Labels) = 7
            /\ DOMAIN items \subseteq Labels
            /\ \A k \in SectionSet :
                   LET kept == Kept(page[1].lists[k])
                   IN  kept # <<>> =>
                           /\ LabelOf(k) \in DOMAIN items
                           /\ Len(items[LabelOf(k)]) = Len(kept)
                           /\ \A i \in 1..Len(kept) :
                                  /\ items[LabelOf(k)][i].name = trim(kept[i].text)
                                  /\ items[LabelOf(k)][i].path = trim(kept[i].href[1])

\* a page with items in its types section and in another section was listed
C18_Witness ==
    /\ Returned("crate_items")
    /\ ret[1].ok
    /\ Kept(page[1].lists[TYPES_KEY]) # <<>>
    /\ TYPE_ALIASES \in DOMAIN ret[1].val[1].items
    /\ \E k \in SectionSet \ {TYPES_KEY} : LabelOf(k) \in DOMAIN ret[1].val[1].items

\* the version the caller asked for: the string of the input's version
\* field, `latest` when the input has none
RequestedVersion ==
    LET o == visit_field(input[1], "version", IF req.op = "get_struct_docs" THEN 3 ELSE 2)
    IN  IF is_some(o) /\ o[1].kind = "string" THEN o[1].str ELSE LATEST

\* `<root>/<package>/<segment>/<package>` with the version segment spelt out
BaseWith(root, crate_name, segment) ==
    root \o SLASH \o crate_name \o SLASH \o segment \o SLASH \o crate_name

\* C19: the version used is the string the caller supplied, and the literal
\* `latest` when the caller supplied none: it is the version segment of the
\* all-items URL either tool reads and of every link that is constructed,
\* and the version the crate_items result reports.
C19_VersionDefault ==
    /\ (Deserialized /\ req.op = "get_struct_docs" /\ Len(reads) >= 1) =>
           reads[1] = BaseWith(roots[1], req.crate_name, RequestedVersion) \o SLASH \o ALL_HTML
    /\ (Deserialized /\ pc = "find_select") =>
           LET hit == MatchedAnchor(page[1], req.struct_name)
               found == find_struct_url(Ok(page[1]), get_docs_rs_url(env), req.crate_name,
                                        req.struct_name, req.version)
           IN  (found.ok /\ ~starts_with(hit[1].href[1], HTTP)) =>
                   starts_with(found.val[1],
                               BaseWith(get_docs_rs_url(env), req.crate_name, RequestedVersion))
    /\ (Deserialized /\ req.op = "crate_items" /\ Len(reads) >= 1) =>
           reads[1] = BaseWith(DOCS_RS, req.crate_name, RequestedVersion) \o SLASH \o ALL_HTML
    /\ (Returned("crate_items") /\ ret[1].ok) =>
           /\ ret[1].val[1].version = RequestedVersion
           /\ \A item \in ReturnedItems :
                  ~starts_with(item.path, HTTP) =>
                      starts_with(item.doc_link,
                                  BaseWith(DOCS_RS, req.crate_name, RequestedVersion) \o SLASH)

\* a listing asked for without a version has returned items under `latest`
C19_Witness ==
    /\ Returned("crate_items")
    /\ ret[1].ok
    /\ is_some(input)
    /\ input[1].kind = "object"
    /\ ~is_some(get(input[1].members, "version"))
    /\ req.crate_name # <<>>
    /\ ret[1].val[1].version = LATEST
    /\ \E item \in ReturnedItems : contains(item.doc_link, SLASH \o LATEST \o SLASH)

FAILED_TO_FETCH_PAGE == <<"F", "a", "i", "l", "e", "d", " ", "t", "o", " ", "f", "e", "t", "c", "h", " ", "d", "o", "c", "s", ".", "r", "s", " ", "p", "a", "g", "e">>

\* C20: when the all-items request of crate_items is answered with a
\* non-success status, crate_items returns an error whose message contains
\* `Failed to fetch docs.rs page` and the URL, and no catalog.
C20_StatusFailure ==
    (/\ Returned("crate_items")
     /\ Len(replies) = 1
     /\ replies[1].send_ok
     /\ ~(200 <= replies[1].status /\ replies[1].status <= 299)) =>
        /\ ~ret[1].ok
        /\ ret[1].val = <<>>
        /\ mentions(ret[1].err, FAILED_TO_FETCH_PAGE)
        /\ mentions(ret[1].err, reads[1])
        /\ ~is_some(page)

\* a listing of a named package at a supplied version was answered with 404
C20_Witness ==
    /\ Returned("crate_items")
    /\ Len(replies) = 1
    /\ replies[1].send_ok
    /\ replies[1].status = 404
    /\ req.crate_name # <<>>
    /\ is_some(req.version)
    /\ ~ret[1].ok

\* the candidate ran and exited with success
Succeeded(run) == run.outcome.ran /\ run.outcome.success

\* `~/.cargo/bin/cargo` for the home directories of the model
HomeCargo == {HOME_DIR \o SLASH \o DOT_CARGO_BIN_CARGO}

\* the candidates are run in the fixed order, each as `<candidate> info
\* <crate_name>`, the fourth being `~/.cargo/bin/cargo` (the empty path when
\* no home directory is known), and none after one that succeeded
TriedInOrder ==
    /\ Len(spawned) <= 4
    /\ \A i \in 1..Len(spawned) :
           /\ i = 1 => spawned[i].path = CARGO
           /\ i = 2 => spawned[i].path = USR_BIN_CARGO
           /\ i = 3 => spawned[i].path = USR_LOCAL_BIN_CARGO
           /\ i = 4 => spawned[i].path \in HomeCargo \cup {<<>>}
           /\ spawned[i].arg = req.crate_name
           /\ Succeeded(spawned[i]) => i = Len(spawned)

\* every candidate was tried and failed, and the error returned reports the
\* failure of the last one
AllFailedReportsLast ==
    /\ Len(spawned) = 4
    /\ ~output[1].ok
    /\ LET tried == spawned[4]
       IN  IF tried.outcome.ran
           THEN ends_with(output[1].err[1], CARGO_FAILED \o tried.outcome.stderr)
           ELSE /\ mentions(output[1].err, FAILED_EXECUTE \o tried.path)
                /\ ends_with(output[1].err[1], NO_SUCH_FILE)

\* C21 as claimed: run_cargo_info runs its candidates in the fixed order
\* and returns the output of the first that runs and exits with success,
\* running none after it, so that it succeeds whenever a candidate
\* succeeds; when every candidate fails it returns an error that reports
\* the failure of the last one.
C21_FirstSuccessReturned ==
    req.op = "crate_info" =>
        /\ TriedInOrder
        /\ pc = "info_parse" =>
               IF \E i \in 1..Len(spawned) : Succeeded(spawned[i])
               THEN /\ output[1].ok
                    /\ spawned[Len(spawned)].outcome.stdout = Some(output[1].val[1])
               ELSE AllFailedReportsLast

\* C21 amended: run_cargo_info runs its candidates in the fixed order (the
\* fourth is the empty path when no home directory is known) and stops at
\* the first that runs and exits with success, running none after it: it
\* returns that candidate's output when the output is valid UTF-8, and the
\* error of the conversion when it is not; when every candidate fails it
\* returns an error that reports the failure of the last one.
C21_FirstSuccessEndsLookup ==
    req.op = "crate_info" =>
        /\ TriedInOrder
        /\ pc = "info_parse" =>
               IF \E i \in 1..Len(spawned) : Succeeded(spawned[i])
               THEN LET stdout == spawned[Len(spawned)].outcome.stdout
                    IN  /\ is_some(stdout) => output[1] = Ok(stdout[1])
                        /\ ~is_some(stdout) =>
                               /\ ~output[1].ok
                               /\ ~mentions(output[1].err, COULD_NOT_EXECUTE)
               ELSE AllFailedReportsLast

\* the PATH candidate could not be run, the second exited with a failure
\* and the third succeeded: its output is returned
C21_Witness ==
    /\ req.op = "crate_info"
    /\ pc = "info_parse"
    /\ Len(spawned) = 3
    /\ ~spawned[1].outcome.ran
    /\ spawned[2].outcome.ran
    /\ ~spawned[2].outcome.success
    /\ Succeeded(spawned[3])
    /\ output[1].ok
    /\ output[1].val[1] # <<>>

\* the tools that take a path
PathTools == {"read_file", "list_directory", "search_files", "get_file_info"}

\* the directories list_allowed_directories reports: those of the file
\* system that its response names
AllowedDirectories ==
    {Disk[i].path : i \in {j \in 1..Len(Disk) :
                               /\ Disk[j].is_dir
                               /\ contains(list_allowed_directories.val[1], Disk[j].path)}}

\* the path is the directory or lies below it
Within(path, dir) == path = dir \/ starts_with(path, dir \o SLASH)

\* C22: a call of read_file, list_directory, search_files or get_file_info
\* whose path lies outside every directory that list_allowed_directories
\* reports returns an error and does not go to the file system.
C22_OutsideAllowedRejected ==
    (/\ pc = "returned"
     /\ req.op \in PathTools
     /\ PathParam(unwrap_or(input, Null)).ok
     /\ \A dir \in AllowedDirectories :
            ~Within(PathParam(unwrap_or(input, Null)).val[1].path, dir)) =>
        /\ ~ret[1].ok
        /\ opened = <<>>

\* the match predicate: the text is the bare name of an unqualified
\* request, the whole request when it is qualified, and the href has the
\* `struct` marker
Satisfies(anchor, name) ==
    /\ anchor.text = IF module_path(name) = <<>>
                     THEN unwrap_or(struct_name_without_path(name), <<>>)
                     ELSE name
    /\ is_some(anchor.href)
    /\ contains(anchor.href[1], STRUCT)

\* the positions of the anchors of a layout that satisfy the predicate
Hits(anchors, name) == {i \in 1..Len(anchors) : Satisfies(anchors[i], name)}

\* the first of a non-empty set of positions
First(positions) == CHOOSE i \in positions : \A j \in positions : i <= j

\* the URL find_struct_url derives from an anchor for the running request
UrlOf(anchor) ==
    full_url(anchor.href[1], get_docs_rs_url(env), req.crate_name, req.struct_name, req.version)

\* what find_struct_url returns for the page that was read
Found ==
    find_struct_url(Ok(page[1]), get_docs_rs_url(env), req.crate_name, req.struct_name,
                    req.version)

\* C23: the URL find_struct_url returns is derived from the first anchor, in
\* document order, of the layout it comes from, that satisfies the match
\* predicate: no anchor that fails the text test or the marker test is
\* selected, and no later anchor is preferred over an earlier one.
C23_FirstMatchWins ==
    (pc = "find_select" /\ Found.ok) =>
        \E layout \in {page[1].lists[STRUCTS_KEY], page[1].table} :
            /\ Hits(layout, req.struct_name) # {}
            /\ Found.val[1] = UrlOf(layout[First(Hits(layout, req.struct_name))])

\* the list holds two anchors that satisfy the predicate, with different
\* hrefs, and the URL is that of the first of the two
C23_Witness ==
    /\ pc = "find_select"
    /\ Found.ok
    /\ LET layout == page[1].lists[STRUCTS_KEY]
           hits == Hits(layout, req.struct_name)
       IN  /\ Cardinality(hits) = 2
           /\ UrlOf(layout[1]) # UrlOf(layout[2])
           /\ Found.val[1] = UrlOf(layout[1])

\* C24: the heading-and-list layout is tried first and the div-table layout
\* second: when the list holds a matching anchor the URL comes from it, even
\* when the table holds one too; the table is used only when the list holds
\* no matching anchor, whether it is empty or not; and the not-found
\* failure is returned only when neither holds one.
C24_ListBeforeTable ==
    pc = "find_select" =>
        LET list == page[1].lists[STRUCTS_KEY]
            table == page[1].table
            inList == Hits(list, req.struct_name)
            inTable == Hits(table, req.struct_name)
        IN  /\ inList # {} => (Found.ok /\ Found.val[1] = UrlOf(list[First(inList)]))
            /\ (inList = {} /\ inTable # {}) =>
                   (Found.ok /\ Found.val[1] = UrlOf(table[First(inTable)]))
            /\ (inList = {} /\ inTable = {}) <=> ~Found.ok
            /\ ~Found.ok => Found = not_found(req.crate_name, req.struct_name)

\* the list holds an anchor that does not match, the table one that does,
\* and the URL comes from the table
C24_Witness ==
    /\ pc = "find_select"
    /\ page[1].lists[STRUCTS_KEY] # <<>>
    /\ Hits(page[1].lists[STRUCTS_KEY], req.struct_name) = {}
    /\ Hits(page[1].table, req.struct_name) # {}
    /\ Found.ok
    /\ Found.val[1] = UrlOf(page[1].table[First(Hits(page[1].table, req.struct_name))])

\* the directories of a module path, and the segments of an href
Dirs(mp) == split(mp, COLONS)

Segments(href) == split(href, SLASH)

\* the directories occur, one after the other, among the segments
AppearsIn(dirs, segments) ==
    \E i \in 0..(Len(segments) - Len(dirs)) : SubSeq(segments, i + 1, i + Len(dirs)) = dirs

\* how often they do
Occurrences(dirs, segments) ==
    Cardinality({i \in 0..(Len(segments) - Len(dirs)) :
                     SubSeq(segments, i + 1, i + Len(dirs)) = dirs})

\* the href with the directories put in before its final segment
Spliced(href, mp) ==
    LET segments == Segments(href)
    IN  join(SubSeq(segments, 1, Len(segments) - 1) \o Dirs(mp)
                 \o <<segments[Len(segments)]>>, SLASH)

\* C25: an href that starts with `http` is returned unchanged; any other
\* href follows the base with the module path of the request, as
\* directories, put in before its final segment if and only if a module
\* path was requested and its directories are not segments of the href
\* already, whether the module path has one segment or several, so that
\* the directories occur exactly once in what follows the base.
C25_SpliceOnce ==
    (pc = "find_select" /\ Found.ok) =>
        LET href == MatchedAnchor(page[1], req.struct_name)[1].href[1]
            mp == module_path(req.struct_name)
            base == SiteBase(get_docs_rs_url(env), req.crate_name, req.version)
            path == SliceFrom(Found.val[1], Len(base))
        IN  /\ starts_with(href, HTTP) => Found.val[1] = href
            /\ ~starts_with(href, HTTP) =>
                   /\ starts_with(Found.val[1], base)
                   /\ path = IF mp # <<>> /\ ~AppearsIn(Dirs(mp), Segments(href))
                             THEN Spliced(href, mp) ELSE href
                   /\ mp # <<>> => Occurrences(Dirs(mp), Segments(path)) = 1

\* C26: no item of a successful crate_items result has an empty name or
\* an empty path, also after trimming, and a category is present only when
\* its section holds an anchor with visible text and a non-blank href:
\* anchors that are skipped do not make it present.
C26_NoBlankItem ==
    (Returned("crate_items") /\ ret[1].ok) =>
        /\ \A item \in ReturnedItems : trim(item.name) # <<>> /\ trim(item.path) # <<>>
        /\ \A k \in SectionSet :
               section_name(k) \in DOMAIN ret[1].val[1].items
                   => \E i \in 1..Len(page[1].lists[k]) :
                          /\ trim(page[1].lists[k][i].text) # <<>>
                          /\ is_some(page[1].lists[k][i].href)
                          /\ trim(page[1].lists[k][i].href[1]) # <<>>

\* a section with a skipped anchor and a retained one was listed, with the
\* retained one only
C26_Witness ==
    /\ Returned("crate_items")
    /\ ret[1].ok
    /\ \E k \in SectionSet :
           /\ Len(page[1].lists[k]) = 2
           /\ Cardinality(Retained(page[1].lists[k])) = 1
           /\ section_name(k) \in DOMAIN ret[1].val[1].items
           /\ Len(ret[1].val[1].items[section_name(k)]) = 1

\* the j-th of the indices of a set, in increasing order
Nth(indices, j) == CHOOSE i \in indices : Cardinality({x \in indices : x < i}) = j - 1

\* C27: in a successful crate_items result the items of a category are
\* those of the retained anchors of that category's section, one item per
\* retained anchor, in the order of the anchors in the document.
C27_DocumentOrder ==
    (Returned("crate_items") /\ ret[1].ok) =>
        \A k \in SectionSet :
            section_name(k) \in DOMAIN ret[1].val[1].items =>
                LET links == page[1].lists[k]
                    listed == ret[1].val[1].items[section_name(k)]
                IN  /\ Len(listed) = Cardinality(Retained(links))
                    /\ \A j \in 1..Len(listed) :
                           LET link == links[Nth(Retained(links), j)]
                           IN  /\ listed[j].name = trim(link.text)
                               /\ listed[j].path = trim(link.href[1])

\* two retained anchors of one section, with different hrefs, were listed
\* in their order
C27_Witness ==
    /\ Returned("crate_items")
    /\ ret[1].ok
    /\ \E k \in SectionSet :
           /\ section_name(k) \in DOMAIN ret[1].val[1].items
           /\ Len(ret[1].val[1].items[section_name(k)]) = 2
           /\ ret[1].val[1].items[section_name(k)][1].path
                  # ret[1].val[1].items[section_name(k)][2].path
           /\ ret[1].val[1].items[section_name(k)][1].path = trim(page[1].lists[k][1].href[1])

\* C28: a successful get_struct_docs result has one method record per
\* method element of the type page and one field record per field element,
\* in the order of the elements; a sub-element that is absent gives the
\* empty string in its place and the record is kept.
C28_OneRecordPerElement ==
    (Returned("get_struct_docs") /\ ret[1].ok) =>
        LET doc == page[1]
            docs == ret[1].val[1]
            text(o) == IF is_some(o) THEN o[1] ELSE <<>>
        IN  /\ Len(docs.methods) = Len(doc.methods)
            /\ \A i \in 1..Len(doc.methods) :
                   /\ docs.methods[i].name = trim(text(doc.methods[i].fn))
                   /\ docs.methods[i].signature = trim(text(doc.methods[i].code_header))
                   /\ docs.methods[i].description = trim(text(doc.methods[i].docblock))
            /\ Len(docs.fields) = Len(doc.fields)
            /\ \A i \in 1..Len(doc.fields) :
                   /\ docs.fields[i].name = text(doc.fields[i].name)
                   /\ docs.fields[i].type_name = text(doc.fields[i].type)
                   /\ docs.fields[i].description = text(doc.fields[i].docblock)

\* a page whose first method element has no sub-element and whose second
\* has them all gave two records, the empty one first
C28_Witness ==
    /\ Returned("get_struct_docs")
    /\ ret[1].ok
    /\ Len(page[1].methods) = 2
    /\ page[1].methods[1].fn = None
    /\ page[1].methods[2].fn # None
    /\ Len(ret[1].val[1].methods) = 2
    /\ ret[1].val[1].methods[1].name = <<>>
    /\ ret[1].val[1].methods[2].name # <<>>

\* C29: whenever find_struct_url splices the module path into an href
\* that does not start with `http` (a module path was requested and no
\* part of the href holds it), the final segment of the URL it returns is
\* the final segment of the href, also when the href holds no `/`.
C29_FileNamePreserved ==
    (pc = "find_select" /\ Found.ok) =>
        LET href == MatchedAnchor(page[1], req.struct_name)[1].href[1]
            mp == module_path(req.struct_name)
            parts == Segments(href)
        IN  (/\ ~starts_with(href, HTTP)
             /\ mp # <<>>
             /\ \A i \in 1..Len(parts) : ~contains(parts[i], mp))
                => last(Segments(Found.val[1])) = last(parts)

\* C30: a find_struct_url call that matches an href not starting with
\* `http` returns a URL that starts with the prefix
\* `<site-root>/<package>/<version>/<package>` of the all-items URL the
\* same call fetched, whatever happens to DOCS_RS_URL in between.
C30_SamePrefixAsFetched ==
    [][(/\ pc = "find_select"
        /\ pc' = "docs_fetch"
        /\ ~starts_with(MatchedAnchor(page[1], req.struct_name)[1].href[1], HTTP))
           => /\ reads[1] = SiteBase(roots[1], req.crate_name, req.version)
                                \o SLASH \o ALL_HTML
              /\ starts_with(target'[1],
                             SiteBase(roots[1], req.crate_name, req.version))]_vars

====
